---- MODULE Spec2Model ----
(***************************************************************************)
(* Model of forge-ai: the duo build pipeline (src/forge/build/duo.py), the *)
(* autonomous build pipeline (src/forge/build/pipeline.py) with its        *)
(* memory, error classification and resume state, the agent adapters       *)
(* (src/forge/agents), the engine (src/forge/engine.py), the orchestration *)
(* modes (src/forge/orchestrate.py) and the dispatch helpers of            *)
(* src/forge/build/phases/dispatch.py.                                     *)
(*                                                                         *)
(* Texts are sequences of one-character strings.  The specifications       *)
(* share the variables:                                                    *)
(*   SpecApproval    the approval check applied to bounded review texts    *)
(*   SpecDuo         DuoBuildPipeline.run with its dispatches and adapters *)
(*   SpecExtract     extract_files_from_output on bounded agent outputs    *)
(*   SpecBuild       BuildPipeline.run (src/forge/build/pipeline.py)       *)
(*   SpecBuildFair   SpecBuild with every started iteration returning      *)
(*   SpecVerify      the verification routines on bounded command outcomes *)
(*   SpecMemory      BuildMemory and PersistentMemory under bounded calls  *)
(*   SpecRollback    the regression check on bounded step histories        *)
(*   SpecClassify    ErrorClassifier.classify on bounded error outputs     *)
(*   SpecResume      save_state, load_state, clear_state on one directory  *)
(*   SpecDispatch    the tasks of one dispatch_all or dispatch_agents call *)
(*   SpecInteractive DuoBuildPipeline.run with interactive pauses          *)
(*   SpecRepeated    classify_repeated_failures on bounded histories       *)
(*   SpecSpinner     execute_with_spinner on bounded task endings          *)
(*   SpecOrchestrate Orchestrator.run in each of its modes                 *)
(***************************************************************************)
EXTENDS Integers, Sequences, FiniteSets, TLC

VARIABLES
    text,          \* approval check: the review_output under test
    verdict,       \* approval check: <<>>, or <<b>> for the BOOLEAN returned
    cfg,           \* duo: constructor arguments of the pipeline
    pc,            \* duo: position of run() in its control flow
    rounds,        \* duo: result.rounds / self.rounds
    result,        \* duo: the DuoResult being built
    iteration,     \* duo: loop variable of the REVIEW/FIX/VERIFY loop
    verify_result, \* duo: errors of the local variable verify_result
    review,        \* duo: output of the local variable review
    call,          \* duo: the agent call being awaited, or NoCall
    orphans,       \* duo: kinds of agent subprocess left running after a timeout
    dispatched,    \* duo: arguments of every dispatch made so far
    committed,     \* duo: number of _auto_commit calls made
    running_cost,  \* duo: self._running_cost
    running_time,  \* duo: self._running_time
    validation,    \* duo: what each validate_project call returned
    output,        \* extract: agent output, a sequence of blocks
    disk,          \* extract: paths of the files written under working_dir
    written,       \* extract: whether the call was made, and the returned list
    bcfg,          \* build: constructor arguments and the engine's adapters
    bpc,           \* build: position of BuildPipeline.run
    current_agent, \* build: self._current_agent
    test_commands, \* build: whether self.test_commands is non-empty
    steps,         \* build: self.steps
    memory,        \* build: self.memory._records
    escalations,   \* build: the _try_escalate calls made, in order
    suite,         \* verify: the routine, its commands and how each ends
    verified,      \* verify: <<>>, or <<r>> for the outcome returned
    records,       \* memory: BuildMemory._records
    observed,      \* memory: <<>>, or <<r>> for the last consecutive_failures read
    entries,       \* memory: PersistentMemory._entries
    mem_file,      \* memory: the learnings saved in .forge-memory.json
    opens,         \* memory: PersistentMemory objects opened on the directory
    attempt,       \* rollback: self.steps and the step of the iteration being checked
    rolled_back,   \* rollback: <<>>, or <<b>> for step.rolled_back after the check
    error_output,  \* classify: the error_output under classification
    classified,    \* classify: <<>>, or <<e>> for the ClassifiedError returned
    state_file,    \* resume: what .forge-duo-state.json holds
    saved,         \* resume: <<>>, or <<a>> for the arguments of the save_state that wrote the file
    loaded,        \* resume: <<>>, or <<r>> for the outcome of the last load_state
    fanout,        \* dispatch: the parallel dispatch being made
    tasks,         \* dispatch: position of each task of the dispatch
    semaphore,     \* dispatch: value of the asyncio.Semaphore of the call
    interactive,   \* interactive: pipeline.interactive
    answered,      \* interactive: number of pause points answered
    aborted,       \* interactive: whether the user chose to abort at a pause point
    history,       \* repeated: the errors passed to classify_repeated_failures
    repeated,      \* repeated: <<>>, or <<e>> for the ClassifiedError returned
    max_retries,   \* spinner: the max_retries argument
    spin_pc,       \* spinner: position of execute_with_spinner
    tasks_created, \* spinner: number of execute_fn(ctx) tasks created
    tries,         \* spinner: how the task of each attempt ended, in order
    spun,          \* spinner: <<>>, or <<e>> for what the call returned or raised
    orch,          \* orchestrate: mode and agent_list of the session
    opc,           \* orchestrate: position of the handler
    calls,         \* orchestrate: the AgentResult of every dispatch made, in order
    orounds,       \* orchestrate: the local list rounds of the handler
    total_cost,    \* orchestrate: the local total_cost of the handler
    subtasks,      \* orchestrate: the agent of each parsed subtask
    oresult        \* orchestrate: <<>>, or <<r>> for the OrchestrationResult returned

approvalVars == <<text, verdict>>
duoVars == <<cfg, pc, rounds, result, iteration, verify_result, review, call,
             orphans, dispatched, committed, running_cost, running_time,
             validation>>
extractVars == <<output, disk, written>>
buildVars == <<bcfg, bpc, current_agent, test_commands, steps, memory,
               escalations>>
verifyVars == <<suite, verified>>
memoryVars == <<records, observed, entries, mem_file, opens>>
rollbackVars == <<attempt, rolled_back>>
classifyVars == <<error_output, classified>>
resumeVars == <<state_file, saved, loaded>>
dispatchVars == <<fanout, tasks, semaphore>>
interactiveVars == <<interactive, answered, aborted>>
repeatedVars == <<history, repeated>>
spinnerVars == <<max_retries, spin_pc, tasks_created, tries, spun>>
orchestrateVars == <<orch, opc, calls, orounds, total_cost, subtasks, oresult>>
vars == <<approvalVars, duoVars, extractVars, buildVars, verifyVars,
          memoryVars, rollbackVars, classifyVars, resumeVars, dispatchVars,
          interactiveVars, repeatedVars, spinnerVars, orchestrateVars>>

\* What the actions of one specification leave alone.
nonApprovalVars == <<duoVars, extractVars, buildVars, verifyVars, memoryVars,
                     rollbackVars, classifyVars, resumeVars, dispatchVars,
                     interactiveVars, repeatedVars, spinnerVars,
                     orchestrateVars>>
nonDuoVars == <<approvalVars, extractVars, buildVars, verifyVars, memoryVars,
                rollbackVars, classifyVars, resumeVars, dispatchVars,
                interactiveVars, repeatedVars, spinnerVars, orchestrateVars>>
nonExtractVars == <<approvalVars, duoVars, buildVars, verifyVars, memoryVars,
                    rollbackVars, classifyVars, resumeVars, dispatchVars,
                    interactiveVars, repeatedVars, spinnerVars,
                    orchestrateVars>>
nonBuildVars == <<approvalVars, duoVars, extractVars, verifyVars, memoryVars,
                  rollbackVars, classifyVars, resumeVars, dispatchVars,
                  interactiveVars, repeatedVars, spinnerVars,
                  orchestrateVars>>
nonVerifyVars == <<approvalVars, duoVars, extractVars, buildVars, memoryVars,
                   rollbackVars, classifyVars, resumeVars, dispatchVars,
                   interactiveVars, repeatedVars, spinnerVars,
                   orchestrateVars>>
nonMemoryVars == <<approvalVars, duoVars, extractVars, buildVars, verifyVars,
                   rollbackVars, classifyVars, resumeVars, dispatchVars,
                   interactiveVars, repeatedVars, spinnerVars,
                   orchestrateVars>>
nonRollbackVars == <<approvalVars, duoVars, extractVars, buildVars,
                     verifyVars, memoryVars, classifyVars, resumeVars,
                     dispatchVars, interactiveVars, repeatedVars,
                     spinnerVars, orchestrateVars>>
nonClassifyVars == <<approvalVars, duoVars, extractVars, buildVars,
                     verifyVars, memoryVars, rollbackVars, resumeVars,
                     dispatchVars, interactiveVars, repeatedVars,
                     spinnerVars, orchestrateVars>>
nonResumeVars == <<approvalVars, duoVars, extractVars, buildVars, verifyVars,
                   memoryVars, rollbackVars, classifyVars, dispatchVars,
                   interactiveVars, repeatedVars, spinnerVars,
                   orchestrateVars>>
nonDispatchVars == <<approvalVars, duoVars, extractVars, buildVars,
                     verifyVars, memoryVars, rollbackVars, classifyVars,
                     resumeVars, interactiveVars, repeatedVars, spinnerVars,
                     orchestrateVars>>
nonInteractiveVars == <<approvalVars, duoVars, extractVars, buildVars,
                        verifyVars, memoryVars, rollbackVars, classifyVars,
                        resumeVars, dispatchVars, repeatedVars, spinnerVars,
                        orchestrateVars>>
nonRepeatedVars == <<approvalVars, duoVars, extractVars, buildVars,
                     verifyVars, memoryVars, rollbackVars, classifyVars,
                     resumeVars, dispatchVars, interactiveVars, spinnerVars,
                     orchestrateVars>>
nonSpinnerVars == <<approvalVars, duoVars, extractVars, buildVars,
                    verifyVars, memoryVars, rollbackVars, classifyVars,
                    resumeVars, dispatchVars, interactiveVars, repeatedVars,
                    orchestrateVars>>
nonOrchestrateVars == <<approvalVars, duoVars, extractVars, buildVars,
                        verifyVars, memoryVars, rollbackVars, classifyVars,
                        resumeVars, dispatchVars, interactiveVars,
                        repeatedVars, spinnerVars>>

(***************************************************************************)
(* Bounds                                                                  *)
(***************************************************************************)
MaxPad == 101        \* longest run of filler before the word in a text
MaxTail == 1         \* longest run of filler after the word in a text

(***************************************************************************)
(* Text helpers                                                            *)
(***************************************************************************)
Min(a, b) == IF a < b THEN a ELSE b

\* Python s[:n]
Prefix(s, n) == SubSeq(s, 1, Min(n, Len(s)))

\* Python str.upper() on the characters the model uses
UpperChar(c) ==
    CASE c = "a" -> "A" [] c = "p" -> "P" [] c = "r" -> "R"
      [] c = "o" -> "O" [] c = "v" -> "V" [] c = "e" -> "E"
      [] c = "d" -> "D" [] c = "x" -> "X"
      [] OTHER -> c

Upper(s) == [i \in 1..Len(s) |-> UpperChar(s[i])]

\* Python `needle in hay`
Contains(needle, hay) ==
    \E i \in 0..(Len(hay) - Len(needle)) :
        SubSeq(hay, i + 1, i + Len(needle)) = needle

Pad(n) == [i \in 1..n |-> "x"]

(***************************************************************************)
(* Approval detection: DuoBuildPipeline._is_approved                       *)
(***************************************************************************)
APPROVED == <<"A", "P", "P", "R", "O", "V", "E", "D">>
ApprovalWindow == 100

IsApprovedNoSlice(review_output) ==
    IF review_output = <<>> THEN FALSE
    ELSE Contains(APPROVED, Upper(review_output))

IsApproved(review_output) ==
    IF review_output = <<>> THEN FALSE
    ELSE LET first_100 == Upper(Prefix(review_output, ApprovalWindow))
         IN  Contains(APPROVED, first_100)

\* Words placed in the generated review texts: the marker in several casings,
\* near misses, and nothing.
Words == { APPROVED,
           <<"a", "p", "p", "r", "o", "v", "e", "d">>,
           <<"A", "p", "p", "r", "O", "v", "e", "D">>,
           <<"A", "P", "P", "R", "O", "V", "E">>,
           <<"A", "P", "R", "O", "V", "E", "D">>,
           <<"a", "p", "p", "r", "o", "v", "e", " ", "d">>,
           <<>> }

ReviewTexts ==
    { Pad(n) \o w \o Pad(m) : n \in 0..MaxPad, w \in Words, m \in 0..MaxTail }

(***************************************************************************)
(* Duo pipeline: configuration and data model                              *)
(***************************************************************************)
MaxRounds == 2       \* largest max_rounds a pipeline is constructed with
Timeout == 2         \* self.timeout, in clock ticks

PHASE_PLAN == "PLAN"
PHASE_CODE == "CODE"
PHASE_VERIFY == "VERIFY"
PHASE_REVIEW == "REVIEW"
PHASE_FIX == "FIX"

AgentPhases == {PHASE_PLAN, PHASE_CODE, PHASE_REVIEW, PHASE_FIX}

\* The adapters an engine can hold under an agent name; "missing" stands for
\* engine.adapters.get(agent) returning None.  cfg.unavailable holds the
\* adapters whose is_available() is false (CLI not installed, no API key);
\* it does not change during a run.
CliAdapters == {"claude", "gemini", "copilot"}
Adapters == CliAdapters \cup {"antigravity"}
Missing == "missing"

\* (planner, coder) pairs the pipelines are constructed with.
AgentPairs == { <<"gemini", "claude">>, <<"claude", "copilot">>,
                <<"antigravity", "antigravity">>,
                <<Missing, "claude">>, <<"gemini", Missing>> }

\* The adapter awaits its backend under asyncio.wait_for(..., ctx.timeout).
HasWaitFor(agent) == agent \in CliAdapters

\* AgentResult of ClaudeAdapter carries the result text also when is_error.
FailedKeepsOutput(agent) == agent = "claude"

NoCall == [phase |-> "none"]

\* Time the backend takes to answer, in ticks: within the timeout, or
\* beyond it.
Needs == {1, Timeout + 1}

\* Answers a backend can give after n ticks: an error comes back promptly, a
\* slow backend is one still producing its answer.
AnswersAfter(n) == IF n = 1 THEN BOOLEAN ELSE {TRUE}

OkText == <<"o", "k">>
NotFoundText == <<"n", "o", "t", " ", "f", "o", "u", "n", "d">>
LowerApprovedText == <<"x", "a", "p", "p", "r", "o", "v", "e", "d">>
IssuesText == <<"I", "S", "S", "U", "E", "S">>

\* What a reviewer may answer.
ReviewOutputs == {LowerApprovedText, IssuesText}

OutputsOf(phase) == IF phase = PHASE_REVIEW THEN ReviewOutputs ELSE {OkText}

\* Output of a FAILED AgentResult: empty from _make_error_result; the result
\* text when the Claude CLI reports is_error.
FailedOutputsOf(agent, phase) ==
    IF FailedKeepsOutput(agent) /\ phase = PHASE_REVIEW
    THEN ReviewOutputs \cup {<<>>} ELSE {<<>>}

\* errors lists a VERIFY can end with (empty: all checks passed)
VerifyErrors == { <<>>, <<"E1">> }

AgentOf(phase) ==
    IF phase \in {PHASE_PLAN, PHASE_REVIEW} THEN cfg.planner ELSE cfg.coder

Agentic(phase) == phase \in {PHASE_CODE, PHASE_FIX}

\* None is <<>> and a cost c is <<c>>, in hundredths of a cent.
NoCost == <<>>

\* cost_usd of an AgentResult: Claude reports total_cost_usd whenever it
\* answered with JSON, Antigravity estimates it from the token usage of a
\* successful call, the others report none.
CostOf(agent, ok, out) ==
    CASE agent = "claude" /\ (ok \/ out # <<>>) -> <<3>>
      [] agent = "antigravity" /\ ok -> <<2>>
      [] OTHER -> NoCost

DuoRound(phase, agent, out, success, duration, cost, errors) ==
    [round_number |-> Len(rounds) + 1, phase |-> phase, agent_name |-> agent,
     output |-> out, success |-> success, duration_ms |-> duration,
     cost_usd |-> cost, errors |-> errors]

\* validate_project on the working directory: the CRITICAL finding for a
\* missing directory, otherwise the directory is examined.
MissingDirectory == "CRITICAL: Working directory does not exist"
ValidateProject == IF cfg.wd_exists THEN "examined" ELSE MissingDirectory

DuoResultInit ==
    [approved |-> FALSE, total_rounds |-> 0, files_created |-> "unset"]

(***************************************************************************)
(* Duo pipeline: DuoBuildPipeline.run                                      *)
(***************************************************************************)
InitDuoVars ==
    /\ \E mr \in 0..MaxRounds, ac \in BOOLEAN, pair \in AgentPairs :
       \E un \in {{}, {pair[1]} \cap Adapters, {pair[2]} \cap Adapters} :
       \E wd \in BOOLEAN :
           cfg = [max_rounds |-> mr, auto_commit |-> ac,
                  planner |-> pair[1], coder |-> pair[2],
                  unavailable |-> un, wd_exists |-> wd]
    /\ pc = "START"
    /\ rounds = <<>>
    /\ result = DuoResultInit
    /\ iteration = 0
    /\ verify_result = <<>>
    /\ review = <<>>
    /\ call = NoCall
    /\ orphans = {}
    /\ dispatched = <<>>
    /\ committed = 0
    /\ running_cost = 0
    /\ running_time = 0
    /\ validation = <<>>

IdleDuoVars ==
    /\ cfg = [max_rounds |-> 0, auto_commit |-> FALSE,
              planner |-> Missing, coder |-> Missing, unavailable |-> {},
              wd_exists |-> TRUE]
    /\ pc = "DONE"
    /\ rounds = <<>>
    /\ result = DuoResultInit
    /\ iteration = 0
    /\ verify_result = <<>>
    /\ review = <<>>
    /\ call = NoCall
    /\ orphans = {}
    /\ dispatched = <<>>
    /\ committed = 0
    /\ running_cost = 0
    /\ running_time = 0
    /\ validation = <<>>

\* errors of the first VERIFY round recorded, <<>> when there is none
FirstVerifyErrors ==
    LET vs == { j \in 1..Len(rounds) : rounds[j].phase = PHASE_VERIFY }
    IN  IF vs = {} THEN <<>>
        ELSE rounds[CHOOSE j \in vs : \A k \in vs : j <= k].errors

StaleVerifyErrorsArg(phase) ==
    IF phase \in {PHASE_REVIEW, PHASE_FIX} THEN FirstVerifyErrors ELSE <<>>

\* verify_errors argument handed to the phase's prompt builder
\* (verify_errors=verify_result.errors in _review and _fix calls)
VerifyErrorsArg(phase) ==
    IF phase \in {PHASE_REVIEW, PHASE_FIX} THEN verify_result ELSE <<>>

AfterPlanIgnoringFailure(r) == PHASE_CODE

\* `if not plan.success: return result`
AfterPlan(r) == IF r.success THEN PHASE_CODE ELSE "DONE"

AfterCodeIgnoringFailure(r) == PHASE_VERIFY

\* `if not code_round.success: return result`
AfterCode(r) == IF r.success THEN PHASE_VERIFY ELSE "DONE"

AfterVerifyStoppingOnFailure(r) ==
    IF r.success /\ iteration + 1 <= cfg.max_rounds
    THEN PHASE_REVIEW ELSE "FINALIZE"

AfterVerifyOneMore(r) ==
    IF iteration + 1 <= cfg.max_rounds + 1 THEN PHASE_REVIEW ELSE "FINALIZE"

\* `for iteration in range(1, self.max_rounds + 1)`: after a VERIFY the next
\* iteration starts if one remains, whatever the VERIFY found.
AfterVerify(r) ==
    IF iteration + 1 <= cfg.max_rounds THEN PHASE_REVIEW ELSE "FINALIZE"

AfterReviewNoBreak(r) == PHASE_FIX

\* `if self._is_approved(review.output): ... break`
AfterReview(r) == IF IsApproved(r.output) THEN "FINALIZE" ELSE PHASE_FIX

AfterFixStoppingOnFailure(r) == IF r.success THEN PHASE_VERIFY ELSE "DONE"

\* After `fix_round = await self._fix(...)` is tracked the loop body goes on
\* to `verify_result = await self._verify(objective)`, whatever the round.
AfterFix(r) == PHASE_VERIFY

RunningTimeOfLastRound(t, r) == r.duration_ms

\* _track_round: self._running_time += round_.duration_ms
RunningTimeAfter(t, r) == t + r.duration_ms

\* _track_round: self._running_cost += round_.cost_usd or 0
RunningCostAfter(c, r) == c + (IF r.cost_usd = NoCost THEN 0 ELSE r.cost_usd[1])

TrackRoundInFront(rs, r) == <<r>> \o rs

\* _track_round on result.rounds and self.rounds
TrackRound(rs, r) == Append(rs, r)

\* The statements of run() that follow `await self._<phase>(...)`:
\* _track_round, then the branch taken on the round.
AfterRound(phase, r) ==
    /\ rounds' = TrackRound(rounds, r)
    /\ running_cost' = RunningCostAfter(running_cost, r)
    /\ running_time' = RunningTimeAfter(running_time, r)
    /\ CASE phase = PHASE_PLAN ->
              /\ pc' = AfterPlan(r)
              /\ UNCHANGED <<result, iteration, verify_result, review>>
         [] phase = PHASE_CODE ->
              /\ pc' = AfterCode(r)
              /\ UNCHANGED <<result, iteration, verify_result, review>>
         [] phase = PHASE_VERIFY ->
              /\ verify_result' = r.errors
              /\ iteration' = iteration + 1
              /\ pc' = AfterVerify(r)
              /\ UNCHANGED <<result, review>>
         [] phase = PHASE_REVIEW ->
              /\ review' = r.output
              /\ result' = IF IsApproved(r.output)
                           THEN [result EXCEPT !.approved = TRUE]
                           ELSE result
              /\ pc' = AfterReview(r)
              /\ UNCHANGED <<iteration, verify_result>>
         [] phase = PHASE_FIX ->
              /\ pc' = AfterFix(r)
              /\ UNCHANGED <<result, iteration, verify_result, review>>

LogEntry(phase, status) ==
    [phase |-> phase, agent |-> AgentOf(phase),
     verify_errors |-> VerifyErrorsArg(phase), at |-> Len(rounds),
     status |-> status, duration_ms |-> 0]

\* The validation gate at the top of each loop iteration, before the review
ValidationBefore(phase) ==
    IF phase = PHASE_REVIEW THEN Append(validation, ValidateProject)
    ELSE validation

\* The start of run(): _validate_agents, then _scaffold_if_needed, whose
\* wd.iterdir() raises FileNotFoundError out of run() when the working
\* directory does not exist.
Scaffold ==
    /\ pc = "START"
    /\ pc' = IF cfg.wd_exists THEN PHASE_PLAN ELSE "RAISED"
    /\ UNCHANGED <<nonDuoVars, cfg, rounds, result, iteration, verify_result,
                   review, call, orphans, dispatched, committed, running_cost,
                   running_time, validation>>

\* _dispatch / _dispatch_agentic when engine.adapters.get(agent) is None
DispatchNotFound ==
    /\ pc \in AgentPhases
    /\ call = NoCall
    /\ AgentOf(pc) = Missing
    /\ dispatched' = Append(dispatched, LogEntry(pc, "notfound"))
    /\ AfterRound(pc, DuoRound(pc, AgentOf(pc), NotFoundText, FALSE, 0,
                               NoCost, <<>>))
    /\ validation' = ValidationBefore(pc)
    /\ UNCHANGED <<nonDuoVars, cfg, call, orphans, committed>>

\* adapter.execute when is_available() is false: _make_unavailable_result
DispatchUnavailable ==
    /\ pc \in AgentPhases
    /\ call = NoCall
    /\ AgentOf(pc) \in Adapters
    /\ AgentOf(pc) \in cfg.unavailable
    /\ dispatched' = Append(dispatched, LogEntry(pc, "unavailable"))
    /\ AfterRound(pc, DuoRound(pc, AgentOf(pc), <<>>, FALSE, 0, NoCost, <<>>))
    /\ validation' = ValidationBefore(pc)
    /\ UNCHANGED <<nonDuoVars, cfg, call, orphans, committed>>

\* adapter.execute / execute_agentic starts its backend and awaits it
DispatchStart ==
    /\ pc \in AgentPhases
    /\ call = NoCall
    /\ AgentOf(pc) \in Adapters
    /\ AgentOf(pc) \notin cfg.unavailable
    /\ \E n \in Needs :
           call' = [phase |-> pc, agent |-> AgentOf(pc), need |-> n]
    /\ dispatched' = Append(dispatched, LogEntry(pc, "running"))
    /\ validation' = ValidationBefore(pc)
    /\ UNCHANGED <<nonDuoVars, cfg, pc, rounds, result, iteration, verify_result, review,
                   orphans, committed, running_cost, running_time>>

SetOutcome(status, duration) ==
    dispatched' = [dispatched EXCEPT
                     ![Len(dispatched)].status = status,
                     ![Len(dispatched)].duration_ms = duration]

\* The backend answers after call.need ticks, before any wait_for timeout
\* fires; the adapter builds a SUCCESS or FAILED AgentResult.
AgentReturn ==
    /\ call # NoCall
    /\ call.phase \in AgentPhases
    /\ HasWaitFor(call.agent) => call.need <= Timeout
    /\ \E ok \in AnswersAfter(call.need) :
       \E out \in IF ok THEN OutputsOf(call.phase)
                  ELSE FailedOutputsOf(call.agent, call.phase) :
           /\ SetOutcome(IF ok THEN "success" ELSE "failed", call.need)
           /\ AfterRound(call.phase,
                         DuoRound(call.phase, call.agent, out, ok,
                                  call.need, CostOf(call.agent, ok, out),
                                  <<>>))
    /\ call' = NoCall
    /\ UNCHANGED <<nonDuoVars, cfg, orphans, committed, validation>>

\* asyncio.wait_for gives up after Timeout ticks: TIMEOUT AgentResult; the
\* subprocess is neither killed nor waited for and keeps running.
AgentTimeout ==
    /\ call # NoCall
    /\ call.phase \in AgentPhases
    /\ HasWaitFor(call.agent)
    /\ call.need > Timeout
    /\ SetOutcome("timeout", Timeout)
    /\ AfterRound(call.phase,
                  DuoRound(call.phase, call.agent, <<>>, FALSE,
                           Timeout, NoCost, <<>>))
    /\ orphans' = orphans \cup {IF Agentic(call.phase) /\ call.agent # "copilot"
                               THEN "agentic" ELSE "readonly"}
    /\ call' = NoCall
    /\ UNCHANGED <<nonDuoVars, cfg, committed, validation>>

\* The subprocesses of one kind left behind by timeouts have ended on their
\* own.
OrphanExit ==
    /\ \E k \in orphans : orphans' = orphans \ {k}
    /\ UNCHANGED <<nonDuoVars, cfg, pc, rounds, result, iteration, verify_result, review,
                   call, dispatched, committed, running_cost, running_time,
                   validation>>

\* _verify starts running the verification commands
VerifyBegin ==
    /\ pc = PHASE_VERIFY
    /\ call = NoCall
    /\ call' = [phase |-> PHASE_VERIFY, agent |-> "system", need |-> 0]
    /\ UNCHANGED <<nonDuoVars, cfg, pc, rounds, result, iteration, verify_result, review,
                   orphans, dispatched, committed, running_cost, running_time,
                   validation>>

\* _verify returns its round, after its own validation gate: success iff the
\* errors list is empty
VerifyEnd ==
    /\ call # NoCall
    /\ call.phase = PHASE_VERIFY
    /\ \E errors \in VerifyErrors :
           AfterRound(PHASE_VERIFY,
                      DuoRound(PHASE_VERIFY, "system", OkText,
                               Len(errors) = 0, 0, NoCost, errors))
    /\ validation' = Append(validation, ValidateProject)
    /\ call' = NoCall
    /\ UNCHANGED <<nonDuoVars, cfg, orphans, dispatched, committed>>

\* The statements after the loop: total_rounds, files_created, _auto_commit
Finalize ==
    /\ pc = "FINALIZE"
    /\ result' = [result EXCEPT !.total_rounds = Len(rounds),
                                !.files_created = "listed"]
    /\ committed' = IF cfg.auto_commit THEN committed + 1 ELSE committed
    /\ pc' = "DONE"
    /\ UNCHANGED <<nonDuoVars, cfg, rounds, iteration, verify_result, review, call,
                   orphans, dispatched, running_cost, running_time,
                   validation>>

NextDuo ==
    \/ Scaffold
    \/ DispatchNotFound
    \/ DispatchUnavailable
    \/ DispatchStart
    \/ AgentReturn
    \/ AgentTimeout
    \/ OrphanExit
    \/ VerifyBegin
    \/ VerifyEnd
    \/ Finalize

(***************************************************************************)
(* File-block extraction: extract_files_from_output                        *)
(*                                                                         *)
(* The agent output is a sequence of lines.  A line is a record with a     *)
(* kind and, for the three header kinds, the path text it carries:         *)
(*   file_hdr    "=== FILE: <path> ==="      end_file    "=== END FILE ===" *)
(*   fence_open  "```<path>"                 fence_close "```"             *)
(*   dash_hdr    "--- <path> ---"                                          *)
(*   text, blank: content lines             noise: a line with a skip mark *)
(***************************************************************************)
MaxBlocks == 2       \* most blocks in one generated agent output

Line(kind, path) == [kind |-> kind, path |-> path]

\* Paths the generated blocks carry, as character sequences.
Paths == { <<"a", ".", "a">>,
           <<"a", "/", "a", ".", "a">>,
           <<"b", "/", "b", ".", "a">>,
           <<".", ".", "/", "a", ".", "a">>,
           <<"a", "/", ".", ".", "/", "a", ".", "a">>,
           <<"/", "a", "/", "a", ".", "a">>,
           <<"a", ".", ".", "a", "/", "a", ".", "a">>,
           <<"a">> }

Contents == { <<Line("text", <<>>)>>,
              <<Line("noise", <<>>), Line("text", <<>>), Line("blank", <<>>)>> }

Blocks == [fmt : 1..3, path : Paths, content : Contents]

Render(b) ==
    CASE b.fmt = 1 -> <<Line("file_hdr", b.path)>> \o b.content
                      \o <<Line("end_file", <<>>)>>
      [] b.fmt = 2 -> <<Line("fence_open", b.path)>> \o b.content
                      \o <<Line("fence_close", <<>>)>>
      [] b.fmt = 3 -> <<Line("dash_hdr", b.path)>> \o b.content

RECURSIVE RenderAll(_)
RenderAll(bs) ==
    IF bs = <<>> THEN <<>> ELSE Render(Head(bs)) \o RenderAll(Tail(bs))

AgentOutputs ==
    { RenderAll(bs) : bs \in UNION { [1..n -> Blocks] : n \in 1..MaxBlocks } }

\* The "Strip noise" loop: lines holding a skip marker are dropped.
StripNoise(lines) == SelectSeq(lines, LAMBDA l : l.kind # "noise")

IsSpace(c) == c = " "
IsWordChar(c) == c \notin {" ", ".", "/"}

\* The path shape \S+/\S+\.\w+ that patterns 2 and 3 require of a label.
ShapedPath(p) ==
    /\ \A k \in 1..Len(p) : ~IsSpace(p[k])
    /\ \E i \in 2..Len(p), j \in 1..Len(p) :
           /\ p[i] = "/"
           /\ j > i + 1
           /\ j < Len(p)
           /\ p[j] = "."
           /\ \A k \in (j + 1)..Len(p) : IsWordChar(p[k])

\* Index of the first line at or after `from` whose kind is in `kinds`,
\* or Len(lines) + 1 when there is none.
FirstOf(lines, from, kinds) ==
    LET hits == { j \in from..Len(lines) : lines[j].kind \in kinds }
    IN  IF hits = {} THEN Len(lines) + 1
        ELSE CHOOSE j \in hits : \A k \in hits : j <= k

Match(path, content) == [path |-> path, content |-> content]

\* Pattern 1: === FILE: path === ... up to "\n=== END FILE ===",
\* "\n=== FILE:" or the end of the text.
RECURSIVE FindP1(_, _)
FindP1(lines, i) ==
    IF i > Len(lines) THEN <<>>
    ELSE IF lines[i].kind = "file_hdr"
    THEN LET j == FirstOf(lines, i + 2, {"file_hdr", "end_file"})
         IN  <<Match(lines[i].path, SubSeq(lines, i + 1, j - 1))>>
             \o FindP1(lines, j)
    ELSE FindP1(lines, i + 1)

\* Pattern 2: ```path ... up to the next ``` (which must exist).
RECURSIVE FindP2(_, _)
FindP2(lines, i) ==
    IF i > Len(lines) THEN <<>>
    ELSE IF lines[i].kind = "fence_open" /\ ShapedPath(lines[i].path)
    THEN LET j == FirstOf(lines, i + 1, {"fence_open", "fence_close"})
         IN  IF j > Len(lines) THEN FindP2(lines, i + 1)
             ELSE <<Match(lines[i].path, SubSeq(lines, i + 1, j - 1))>>
                  \o FindP2(lines, j + 1)
    ELSE FindP2(lines, i + 1)

\* Pattern 3: --- path --- ... up to "\n--- " or the end of the text.
RECURSIVE FindP3(_, _)
FindP3(lines, i) ==
    IF i > Len(lines) THEN <<>>
    ELSE IF lines[i].kind = "dash_hdr" /\ ShapedPath(lines[i].path)
    THEN LET j == FirstOf(lines, i + 2, {"dash_hdr"})
         IN  <<Match(lines[i].path, SubSeq(lines, i + 1, j - 1))>>
             \o FindP3(lines, j)
    ELSE FindP3(lines, i + 1)

FindMatchesOfEveryPattern(clean) ==
    FindP1(clean, 1) \o FindP2(clean, 1) \o FindP3(clean, 1)

\* matches after the three `if not matches` fallbacks
FindMatches(clean) ==
    LET m1 == FindP1(clean, 1)
        m2 == FindP2(clean, 1)
        m3 == FindP3(clean, 1)
    IN  IF m1 # <<>> THEN m1 ELSE IF m2 # <<>> THEN m2 ELSE m3

\* content.rstrip("\n") + "\n": trailing empty lines are dropped and every
\* remaining line ends with a newline.
RECURSIVE RStripNewlines(_)
RStripNewlines(content) ==
    IF content = <<>> THEN <<>>
    ELSE IF content[Len(content)].kind = "blank"
    THEN RStripNewlines(SubSeq(content, 1, Len(content) - 1))
    ELSE content

DotDot == <<".", ".">>

RejectedOnlyAbsolute(filepath) ==
    \/ (filepath # <<>> /\ filepath[1] = "/")
    \/ (~Contains(<<"/">>, filepath) /\ ~Contains(<<".">>, filepath))

\* The two `continue` guards of the write loop.
Rejected(filepath) ==
    \/ Contains(DotDot, filepath)
    \/ (filepath # <<>> /\ filepath[1] = "/")
    \/ (~Contains(<<"/">>, filepath) /\ ~Contains(<<".">>, filepath))

\* The write loop: returns the disk and the written list after the matches
\* from index i on have been processed.
RECURSIVE WriteLoop(_, _, _, _)
WriteLoop(matches, i, d, w) ==
    IF i > Len(matches) THEN [disk |-> d, written |-> w]
    ELSE LET filepath == matches[i].path
             content == RStripNewlines(matches[i].content)
         IN  IF Rejected(filepath) THEN WriteLoop(matches, i + 1, d, w)
             ELSE WriteLoop(matches, i + 1,
                            [q \in (DOMAIN d) \cup {filepath} |->
                                 IF q = filepath THEN content ELSE d[q]],
                            Append(w, filepath))

EmptyDisk == [q \in {} |-> <<>>]

InitExtractVars ==
    /\ output \in AgentOutputs
    /\ disk = EmptyDisk
    /\ written = [done |-> FALSE, files |-> <<>>]

IdleExtractVars ==
    /\ output = <<>>
    /\ disk = EmptyDisk
    /\ written = [done |-> FALSE, files |-> <<>>]

ExtractFiles ==
    /\ ~written.done
    /\ LET r == WriteLoop(FindMatches(StripNoise(output)), 1, disk, <<>>)
       IN  /\ disk' = r.disk
           /\ written' = [done |-> TRUE, files |-> r.written]
    /\ UNCHANGED <<output, nonExtractVars>>

(***************************************************************************)
(* Approval check specification                                            *)
(***************************************************************************)
InitApprovalVars ==
    /\ text \in ReviewTexts
    /\ verdict = <<>>

IdleApprovalVars ==
    /\ text = <<>>
    /\ verdict = <<>>

CheckApproval ==
    /\ verdict = <<>>
    /\ verdict' = <<IsApproved(text)>>
    /\ UNCHANGED <<text, nonApprovalVars>>

(***************************************************************************)
(* Build pipeline: BuildPipeline.run                                       *)
(***************************************************************************)
MaxIterations == 5   \* largest max_iterations a pipeline is built with

\* Model tiers for escalation, weakest to strongest
ESCALATION_TIERS ==
    <<"claude-haiku", "antigravity-flash", "gemini", "claude-sonnet",
      "antigravity-pro", "claude-opus">>

\* should_escalate(max_failures=3)
EscalateAfter == 3

\* The engine's adapters (config keys), the ones whose backend is installed,
\* and the primary agent the pipeline is built with.
BuildSetups ==
    { [adapters |-> {"claude-haiku", "gemini", "claude-opus"},
       installed |-> {"claude-haiku", "gemini", "claude-opus"},
       primary_agent |-> "claude-haiku"],
      [adapters |-> {"gemini", "copilot"},
       installed |-> {"gemini", "copilot"},
       primary_agent |-> "gemini"],
      [adapters |-> {"claude-haiku", "copilot"},
       installed |-> {"claude-haiku", "copilot"},
       primary_agent |-> "copilot"],
      [adapters |-> {"gemini", "claude-opus"},
       installed |-> {"claude-opus"},
       primary_agent |-> "gemini"],
      [adapters |-> {"claude-opus"},
       installed |-> {"claude-opus"},
       primary_agent |-> "claude-sonnet"],
      [adapters |-> {"claude-haiku", "claude-opus"},
       installed |-> {"claude-haiku", "claude-opus"},
       primary_agent |-> "claude-opus"],
      [adapters |-> {"claude-haiku", "gemini", "claude-opus"},
       installed |-> {"claude-haiku", "claude-opus"},
       primary_agent |-> "claude-haiku"] }

\* Categories the classifier may give a failed verification.
BuildCategories == {"syntax", "logic"}

InitBuildVars ==
    /\ \E su \in BuildSetups, mi \in 0..MaxIterations, esc \in BOOLEAN :
           bcfg = [adapters |-> su.adapters, installed |-> su.installed,
                   primary_agent |-> su.primary_agent,
                   max_iterations |-> mi, enable_escalation |-> esc]
    /\ bpc = "LOOP"
    /\ current_agent = bcfg.primary_agent
    /\ test_commands \in BOOLEAN
    /\ steps = <<>>
    /\ memory = <<>>
    /\ escalations = <<>>

IdleBuildVars ==
    /\ bcfg = [adapters |-> {}, installed |-> {}, primary_agent |-> "none",
               max_iterations |-> 0, enable_escalation |-> FALSE]
    /\ bpc = "DONE"
    /\ current_agent = "none"
    /\ test_commands = FALSE
    /\ steps = <<>>
    /\ memory = <<>>
    /\ escalations = <<>>

\* BuildStep as _run_iteration creates it: nothing built, tested or rolled
\* back yet.
BuildStep(n, agent, status, invoked) ==
    [iteration |-> n, agent_name |-> agent, status |-> status,
     backend_invoked |-> invoked, build_success |-> FALSE,
     test_success |-> FALSE, error_classification |-> "none",
     rolled_back |-> FALSE,
     files_created |-> FALSE, files_modified |-> FALSE]

\* files_created tells whether the list is non-empty.
IterationRecord(n, agent, files_created, test_passed, error_category) ==
    [iteration |-> n, agent |-> agent, files_created |-> files_created,
     test_passed |-> test_passed, error_category |-> error_category]

\* BuildMemory.consecutive_failures counting every failing record
RECURSIVE CountFailures(_, _)
CountFailures(recs, i) ==
    IF i = 0 THEN 0
    ELSE (IF recs[i].test_passed THEN 0 ELSE 1) + CountFailures(recs, i - 1)

\* The loop of BuildMemory.consecutive_failures: walk the records backward
\* from index i, stop at the first one that passed.
RECURSIVE CountFromEnd(_, _)
CountFromEnd(recs, i) ==
    IF i = 0 \/ recs[i].test_passed THEN 0
    ELSE 1 + CountFromEnd(recs, i - 1)

ConsecutiveFailuresNoBreak(recs) == CountFailures(recs, Len(recs))

\* BuildMemory.consecutive_failures
ConsecutiveFailures(recs) == CountFromEnd(recs, Len(recs))

ShouldEscalateOnce(recs, max_failures) ==
    ConsecutiveFailures(recs) = max_failures

\* BuildMemory.should_escalate
ShouldEscalate(recs, max_failures) == ConsecutiveFailures(recs) >= max_failures

\* Position of the agent in ESCALATION_TIERS (current_tier + 1), 0 when the
\* agent is not a tier.
TierIndex(agent) ==
    IF \E i \in 1..Len(ESCALATION_TIERS) : ESCALATION_TIERS[i] = agent
    THEN CHOOSE i \in 1..Len(ESCALATION_TIERS) : ESCALATION_TIERS[i] = agent
    ELSE 0

\* Tier positions _try_escalate looks at, from position `from` on, that are
\* configured.
TiersFrom(from, available) ==
    { j \in from..Len(ESCALATION_TIERS) : ESCALATION_TIERS[j] \in available }

LowestOf(S) == CHOOSE j \in S : \A k \in S : j <= k

TryEscalateFromFirstTier(agent, available) ==
    IF TiersFrom(1, available) = {} THEN agent
    ELSE ESCALATION_TIERS[LowestOf(TiersFrom(1, available))]

\* BuildPipeline._try_escalate: the agent in charge afterwards
TryEscalate(agent, available) ==
    IF TiersFrom(TierIndex(agent) + 1, available) = {} THEN agent
    ELSE ESCALATION_TIERS[LowestOf(TiersFrom(TierIndex(agent) + 1, available))]

ShouldRollbackOnAnyFailure(prev_steps, current_step) ==
    ~current_step.test_success

\* BuildPipeline._should_rollback, called before the step is appended
ShouldRollback(prev_steps, current_step) ==
    IF Len(prev_steps) < 2 THEN FALSE
    ELSE prev_steps[Len(prev_steps)].test_success
         /\ ~current_step.test_success

\* BuildPipeline._dispatch_agentic and the adapter's availability check: the
\* AgentResult statuses it can return, and whether the backend was started.
DispatchOutcomes(agent) ==
    IF agent \notin bcfg.adapters
    THEN { [status |-> "failed", invoked |-> FALSE] }
    ELSE IF agent \notin bcfg.installed
    THEN { [status |-> "unavailable", invoked |-> FALSE] }
    ELSE { [status |-> st, invoked |-> TRUE] :
             st \in {"success", "failed", "timeout"} }

TrailingRecordAlways(step) ==
    <<IterationRecord(step.iteration, step.agent_name, step.files_created,
                      TRUE, "none")>>

\* `if step.build_success: self.memory.record_iteration(...)` at the end of
\* _run_iteration: the records it adds
TrailingRecord(step) ==
    IF step.build_success
    THEN <<IterationRecord(step.iteration, step.agent_name,
                           step.files_created, TRUE, "none")>>
    ELSE <<>>

ReturnsNever(step) == FALSE

\* `if step.build_success: ... return self.steps` in the loop of run
ReturnsAtOnce(step) == step.build_success

\* The rest of the loop body in run after _run_iteration returned the step,
\* having made the record_iteration calls recs: the step is appended, a
\* successful build returns, otherwise escalation is considered.
FinishIteration(step, recs) ==
    /\ steps' = Append(steps, step)
    /\ memory' = memory \o recs
    /\ IF ReturnsAtOnce(step)
       THEN /\ bpc' = "DONE"
            /\ current_agent' = current_agent
            /\ escalations' = escalations
       ELSE /\ bpc' = "LOOP"
            /\ IF bcfg.enable_escalation
                  /\ ShouldEscalate(memory \o recs, EscalateAfter)
               THEN /\ current_agent' =
                          TryEscalate(current_agent, bcfg.adapters)
                    /\ escalations' =
                          Append(escalations,
                                 [after |-> step.iteration,
                                  from |-> current_agent,
                                  to |-> current_agent'])
               ELSE /\ current_agent' = current_agent
                    /\ escalations' = escalations

\* An iteration whose agent result is not a success: one record, and
\* _run_iteration returns at once
IterationAgentFailed ==
    /\ bpc = "LOOP"
    /\ Len(steps) < bcfg.max_iterations
    /\ \E o \in DispatchOutcomes(current_agent) :
           /\ o.status # "success"
           /\ FinishIteration(
                  BuildStep(Len(steps) + 1, current_agent, o.status, o.invoked),
                  <<IterationRecord(Len(steps) + 1, current_agent, FALSE,
                                    FALSE, "agent_failure")>>)
    /\ UNCHANGED <<bcfg, test_commands, nonBuildVars>>

\* An iteration whose agent succeeded and whose verification commands, given
\* or detected, were run (the agent is taken to modify no existing file)
IterationVerified ==
    /\ bpc = "LOOP"
    /\ Len(steps) < bcfg.max_iterations
    /\ \E o \in DispatchOutcomes(current_agent) :
       \E v \in {"pass"} \cup BuildCategories, new_files \in BOOLEAN :
           /\ o.status = "success"
           /\ LET n == Len(steps) + 1
                  base == BuildStep(n, current_agent, o.status, o.invoked)
                  failed == [base EXCEPT !.error_classification = v,
                                         !.files_created = new_files]
                  passed == [base EXCEPT !.test_success = TRUE,
                                         !.build_success = TRUE,
                                         !.files_created = new_files]
                  regressed == [failed EXCEPT !.rolled_back =
                                                  ShouldRollback(steps, failed)]
              IN  IF v = "pass"
                  THEN FinishIteration(passed, TrailingRecord(passed))
                  ELSE FinishIteration(
                           regressed,
                           <<IterationRecord(n, current_agent, new_files,
                                             FALSE, v)>>
                               \o TrailingRecord(regressed))
    /\ test_commands' = TRUE
    /\ UNCHANGED <<bcfg, nonBuildVars>>

FilesCreated(new_files, modified_files) == new_files

\* `if new_files or modified_files` of the branch without test commands
FilesChanged(new_files, modified_files) == new_files \/ modified_files

\* An iteration whose agent succeeded with no verification command known:
\* it succeeds when files were created or modified
IterationUnverified ==
    /\ bpc = "LOOP"
    /\ Len(steps) < bcfg.max_iterations
    /\ ~test_commands
    /\ \E o \in DispatchOutcomes(current_agent) :
       \E new_files \in BOOLEAN, modified_files \in BOOLEAN :
           /\ o.status = "success"
           /\ LET n == Len(steps) + 1
                  base == BuildStep(n, current_agent, o.status, o.invoked)
                  changed == FilesChanged(new_files, modified_files)
                  step == [base EXCEPT !.build_success = changed,
                                       !.files_created = new_files,
                                       !.files_modified = modified_files]
              IN  FinishIteration(
                      step,
                      (IF changed THEN <<>>
                       ELSE <<IterationRecord(n, current_agent, FALSE, FALSE,
                                              "none")>>)
                          \o TrailingRecord(step))
    /\ UNCHANGED <<bcfg, test_commands, nonBuildVars>>

\* The loop ran max_iterations times without a successful build
Exhausted ==
    /\ bpc = "LOOP"
    /\ Len(steps) = bcfg.max_iterations
    /\ bpc' = "DONE"
    /\ UNCHANGED <<bcfg, current_agent, test_commands, steps, memory,
                   escalations, nonBuildVars>>

NextBuild ==
    \/ IterationAgentFailed
    \/ IterationVerified
    \/ IterationUnverified
    \/ Exhausted

(***************************************************************************)
(* Verification: DuoBuildPipeline._verify, run_verify and                   *)
(* BuildPipeline._run_verification                                          *)
(***************************************************************************)
MaxCommands == 2     \* most build/lint/test commands in a suite

\* How one subprocess.run of a verification command ends: exit code zero,
\* another exit code, subprocess.TimeoutExpired, or an OSError.
CommandOutcomes == {"zero", "nonzero", "timeout", "oserror"}

\* The three verification routines
VerifyRoutines == {"_verify", "run_verify", "_run_verification"}

\* VerificationSuite.all_commands: the syntax check first when there is one
AllCommands(s) ==
    (IF s.syntax_check = "absent" THEN <<>> ELSE <<s.syntax_check>>)
        \o s.commands

ErrorEntry(cmd, kind) == [cmd |-> cmd, kind |-> kind]

\* The command loop shared by the three routines: one error entry for each
\* command, from position i on, that did not exit with code zero.  Command i
\* of the list is command i + offset of all_commands.
RECURSIVE CommandErrors(_, _, _)
CommandErrors(outcomes, i, offset) ==
    IF i > Len(outcomes) THEN <<>>
    ELSE (CASE outcomes[i] = "zero" -> <<>>
            [] outcomes[i] = "nonzero" -> <<ErrorEntry(i + offset, "exit")>>
            [] outcomes[i] = "timeout" -> <<ErrorEntry(i + offset, "timeout")>>
            [] outcomes[i] = "oserror" -> <<ErrorEntry(i + offset, "error")>>)
         \o CommandErrors(outcomes, i + 1, offset)

\* The syntax pre-check of run_verify: only a non-zero exit adds an error
SyntaxCheckErrors(s) ==
    IF s.syntax_check = "nonzero" THEN <<ErrorEntry(1, "exit")>> ELSE <<>>

\* The validation gate: one error for each CRITICAL issue
ValidationErrors(s) ==
    [k \in 1..s.critical |-> ErrorEntry(0, "validation")]

\* errors of DuoBuildPipeline._verify
DuoVerifyErrors(s) ==
    CommandErrors(AllCommands(s), 1, 0) \o ValidationErrors(s)

\* errors of run_verify
RunVerifyErrors(s) ==
    SyntaxCheckErrors(s)
        \o CommandErrors(s.commands, 1, Len(AllCommands(s)) - Len(s.commands))
        \o ValidationErrors(s)

\* the failing commands of BuildPipeline._run_verification
RunVerificationErrors(s) == CommandErrors(s.commands, 1, 0)

\* What a routine returns: success, and the error entries behind it
VerifyOutcome(errors) == [success |-> Len(errors) = 0, errors |-> errors]

Suites ==
    { [routine |-> r, syntax_check |-> sc, commands |-> cs, critical |-> cr] :
        r \in VerifyRoutines,
        sc \in {"absent"} \cup CommandOutcomes,
        cs \in UNION { [1..n -> CommandOutcomes] : n \in 0..MaxCommands },
        cr \in 0..1 }

InitVerifyVars ==
    /\ suite \in { s \in Suites :
                     s.routine = "_run_verification"
                         => s.syntax_check = "absent" /\ s.critical = 0 }
    /\ verified = <<>>

IdleVerifyVars ==
    /\ suite = [routine |-> "none", syntax_check |-> "absent",
                commands |-> <<>>, critical |-> 0]
    /\ verified = <<>>

\* DuoBuildPipeline._verify
Verify ==
    /\ suite.routine = "_verify"
    /\ verified = <<>>
    /\ verified' = <<VerifyOutcome(DuoVerifyErrors(suite))>>
    /\ UNCHANGED <<suite, nonVerifyVars>>

\* phases.verify.run_verify
RunVerify ==
    /\ suite.routine = "run_verify"
    /\ verified = <<>>
    /\ verified' = <<VerifyOutcome(RunVerifyErrors(suite))>>
    /\ UNCHANGED <<suite, nonVerifyVars>>

\* BuildPipeline._run_verification
RunVerification ==
    /\ suite.routine = "_run_verification"
    /\ verified = <<>>
    /\ verified' = <<VerifyOutcome(RunVerificationErrors(suite))>>
    /\ UNCHANGED <<suite, nonVerifyVars>>

NextVerify ==
    \/ Verify
    \/ RunVerify
    \/ RunVerification

(***************************************************************************)
(* Session memory and cross-run memory: BuildMemory, PersistentMemory       *)
(***************************************************************************)
MaxRecords == 4      \* most iterations recorded in one BuildMemory
MaxLearnings == 4    \* most add_learning calls made on one PersistentMemory
MaxOpens == 2        \* most PersistentMemory objects opened on the directory

\* Records a caller passes to record_iteration: a passing iteration that
\* created files, a failing one with an error category, a failing one
\* without.
RecordKinds ==
    { [test_passed |-> TRUE, files_created |-> TRUE, error_category |-> "none"],
      [test_passed |-> FALSE, files_created |-> FALSE,
       error_category |-> "syntax"],
      [test_passed |-> FALSE, files_created |-> FALSE,
       error_category |-> "none"] }

\* Confidence is counted in tenths: 0.7 is the default of add_learning, 0.8
\* what learn_from_run gives a failure pattern.
DefaultConfidence == 7
FailureConfidence == 8
FullConfidence == 10

\* Patterns and confidences a caller passes to add_learning
\* (a pattern is the sequence of the parts its text is formatted from)
Patterns == { <<"Flask tip">>, <<"Avoid", "syntax">> }
Confidences == {DefaultConfidence, FullConfidence}

\* The objective hint and the agent a caller passes with a confidence
CallerOf(confidence) ==
    IF confidence = DefaultConfidence
    THEN [objective_hint |-> "flask api", agent |-> "claude"]
    ELSE [objective_hint |-> "cli tool", agent |-> "gemini"]

LearningEntry(pattern, category, objective_hint, agent, confidence) ==
    [pattern |-> pattern, category |-> category,
     objective_hint |-> objective_hint, agent |-> agent,
     confidence |-> confidence, uses |-> 0]

\* Index of the first entry with the pattern, 0 when there is none
FirstWithPattern(es, pattern) ==
    IF \E i \in 1..Len(es) : es[i].pattern = pattern
    THEN CHOOSE i \in 1..Len(es) :
             /\ es[i].pattern = pattern
             /\ \A j \in 1..(i - 1) : es[j].pattern # pattern
    ELSE 0

AddLearningNoDedup(es, pattern, category, objective_hint, agent, confidence) ==
    Append(es, LearningEntry(pattern, category, objective_hint, agent,
                             confidence))

\* PersistentMemory.add_learning: the entries afterwards
AddLearning(es, pattern, category, objective_hint, agent, confidence) ==
    IF FirstWithPattern(es, pattern) # 0
    THEN [es EXCEPT ![FirstWithPattern(es, pattern)] =
              [@ EXCEPT !.confidence = Min(FullConfidence, @ + 1),
                        !.uses = @ + 1]]
    ELSE Append(es, LearningEntry(pattern, category, objective_hint, agent,
                                  confidence))

\* The keys of one item of "learnings" in the memory file
ItemKeys ==
    {"pattern", "category", "objective_hint", "agent", "confidence", "uses"}

SaveWithoutUses(es) ==
    [i \in 1..Len(es) |->
        [k \in ItemKeys \ {"uses"} |-> es[i][k]]]

\* PersistentMemory.save: the "learnings" list written to the memory file
Save(es) ==
    [i \in 1..Len(es) |->
        [k \in ItemKeys |-> es[i][k]]]

\* LearningEntry(**item): uses is 0 for an item without the key
EntryOfItem(item) ==
    [k \in ItemKeys |->
        IF k = "uses" /\ k \notin DOMAIN item THEN 0 ELSE item[k]]

\* PersistentMemory._load: the entries read from the memory file, which is
\* <<>> when the file does not exist
Load(learnings) ==
    [i \in 1..Len(learnings) |-> EntryOfItem(learnings[i])]

\* The loop of PersistentMemory.learn_from_run over memory.records, from
\* record i on
RECURSIVE LearnFrom(_, _, _)
LearnFrom(es, recs, i) ==
    IF i > Len(recs) THEN es
    ELSE LearnFrom(
             (IF recs[i].test_passed /\ recs[i].files_created
              THEN AddLearning(es, <<"Created", "f">>, "success",
                               "flask api", recs[i].agent, DefaultConfidence)
              ELSE IF recs[i].error_category # "none"
              THEN AddLearning(es, <<"Avoid", recs[i].error_category>>,
                               "failure", "flask api", recs[i].agent,
                               FailureConfidence)
              ELSE es),
             recs, i + 1)

RECURSIVE SumUses(_, _)
SumUses(es, i) == IF i = 0 THEN 0 ELSE SumUses(es, i - 1) + es[i].uses

\* Number of add_learning calls the entries are the result of
LearningsMade(es) == Len(es) + SumUses(es, Len(es))

InitMemoryVars ==
    /\ records = <<>>
    /\ observed = <<>>
    /\ mem_file = <<>>
    /\ entries = Load(mem_file)
    /\ opens = 1

IdleMemoryVars ==
    /\ records = <<>>
    /\ observed = <<>>
    /\ entries = <<>>
    /\ mem_file = <<>>
    /\ opens = 0

\* BuildMemory.record_iteration
RecordIteration ==
    /\ Len(records) < MaxRecords
    /\ \E k \in RecordKinds :
           records' = Append(records,
                             IterationRecord(Len(records) + 1, "agent",
                                             k.files_created, k.test_passed,
                                             k.error_category))
    /\ UNCHANGED <<observed, entries, mem_file, opens, nonMemoryVars>>

\* A caller reads BuildMemory.consecutive_failures
ReadConsecutiveFailures ==
    /\ observed' = <<[at |-> Len(records),
                      count |-> ConsecutiveFailures(records)]>>
    /\ UNCHANGED <<records, entries, mem_file, opens, nonMemoryVars>>

\* A caller adds one learning; the entries are saved to the memory file
AddLearningCall ==
    /\ LearningsMade(entries) < MaxLearnings
    /\ \E p \in Patterns, c \in Confidences :
           entries' = AddLearning(entries, p, "strategy",
                                  CallerOf(c).objective_hint,
                                  CallerOf(c).agent, c)
    /\ mem_file' = Save(entries')
    /\ UNCHANGED <<records, observed, opens, nonMemoryVars>>

\* PersistentMemory.learn_from_run on the session memory
LearnFromRun ==
    /\ LearningsMade(entries) + Len(records) <= MaxLearnings
    /\ entries' = LearnFrom(entries, records, 1)
    /\ mem_file' = IF LearningsMade(entries') = LearningsMade(entries)
                   THEN mem_file
                   ELSE Save(entries')
    /\ UNCHANGED <<records, observed, opens, nonMemoryVars>>

\* A later pipeline run: a new PersistentMemory is opened on the directory
\* and takes the place of the one before
Reopen ==
    /\ opens < MaxOpens
    /\ opens' = opens + 1
    /\ entries' = Load(mem_file)
    /\ UNCHANGED <<records, observed, mem_file, nonMemoryVars>>

NextMemory ==
    \/ RecordIteration
    \/ ReadConsecutiveFailures
    \/ AddLearningCall
    \/ LearnFromRun
    \/ Reopen

(***************************************************************************)
(* Regression check of a failed iteration: BuildPipeline._should_rollback   *)
(***************************************************************************)
MaxSteps == 4        \* most earlier steps a pipeline holds at the check

\* A step with the verification result given
VerifiedStep(n, test_success) ==
    [BuildStep(n, "agent", "success", TRUE)
        EXCEPT !.test_success = test_success, !.build_success = test_success]

\* self.steps of a pipeline, by the verification result of each step
StepHistories ==
    { [i \in DOMAIN f |-> VerifiedStep(i, f[i])] :
        f \in UNION { [1..n -> BOOLEAN] : n \in 0..MaxSteps } }

InitRollbackVars ==
    /\ \E h \in StepHistories, ts \in BOOLEAN :
           attempt = [steps |-> h, step |-> VerifiedStep(Len(h) + 1, ts)]
    /\ rolled_back = <<>>

IdleRollbackVars ==
    /\ attempt = [steps |-> <<>>, step |-> VerifiedStep(1, TRUE)]
    /\ rolled_back = <<>>

\* The verification branch of _run_iteration: a passing step is kept, a
\* failing one is rolled back when _should_rollback says so.
CheckRegression ==
    /\ rolled_back = <<>>
    /\ rolled_back' =
           <<IF attempt.step.test_success THEN FALSE
             ELSE ShouldRollback(attempt.steps, attempt.step)>>
    /\ UNCHANGED <<attempt, nonRollbackVars>>

NextRollback == CheckRegression

(***************************************************************************)
(* Error classification: ErrorClassifier.classify (src/forge/build/        *)
(* errors.py)                                                              *)
(***************************************************************************)
MaxFragments == 3    \* most fragments an error output is made of

\* A pattern is its literal pieces, in order, with `.*` between them; a
\* piece is a sequence of characters and of the two classes below.
Digit == "0-9"
Quote == "'\""
Digits == {"0", "1", "2", "3", "4", "5", "6", "7", "8", "9"}

SYNTAX_PATTERNS ==
    { << <<"S", "y", "n", "t", "a", "x", "E", "r", "r", "o", "r">> >>,
      << <<"I", "n", "d", "e", "n", "t", "a", "t", "i", "o", "n", "E", "r", "r", "o", "r">> >>,
      << <<"u", "n", "e", "x", "p", "e", "c", "t", "e", "d", " ", "E", "O", "F">> >>,
      << <<"i", "n", "v", "a", "l", "i", "d", " ", "s", "y", "n", "t", "a", "x">> >>,
      << <<"e", "x", "p", "e", "c", "t", "e", "d">>, <<Quote>> >>,
      << <<"u", "n", "t", "e", "r", "m", "i", "n", "a", "t", "e", "d", " ", "s", "t", "r", "i", "n", "g">> >>,
      << <<"T", "a", "b", "E", "r", "r", "o", "r">> >> }

DEPENDENCY_PATTERNS ==
    { << <<"M", "o", "d", "u", "l", "e", "N", "o", "t", "F", "o", "u", "n", "d", "E", "r", "r", "o", "r">> >>,
      << <<"I", "m", "p", "o", "r", "t", "E", "r", "r", "o", "r">> >>,
      << <<"N", "o", " ", "m", "o", "d", "u", "l", "e", " ", "n", "a", "m", "e", "d">> >>,
      << <<"C", "o", "u", "l", "d", " ", "n", "o", "t", " ", "f", "i", "n", "d", " ", "a", " ", "v", "e", "r", "s", "i", "o", "n">> >>,
      << <<"p", "i", "p", " ", "i", "n", "s", "t", "a", "l", "l">> >>,
      << <<"n", "p", "m", " ", "E", "R", "R", "!">>, <<"n", "o", "t", " ", "f", "o", "u", "n", "d">> >>,
      << <<"p", "a", "c", "k", "a", "g", "e">>, <<"n", "o", "t", " ", "f", "o", "u", "n", "d">> >>,
      << <<"C", "a", "n", "n", "o", "t", " ", "f", "i", "n", "d", " ", "m", "o", "d", "u", "l", "e">> >>,
      << <<"M", "o", "d", "u", "l", "e", " ", "n", "o", "t", " ", "f", "o", "u", "n", "d">> >>,
      << <<"e", "r", "r", "o", "r", "[", "E", "0", "4", "3", "2", "]">> >>,
      << <<"c", "a", "n", "n", "o", "t", " ", "f", "i", "n", "d", " ", "p", "a", "c", "k", "a", "g", "e">> >> }

LOGIC_PATTERNS ==
    { << <<"A", "s", "s", "e", "r", "t", "i", "o", "n", "E", "r", "r", "o", "r">> >>,
      << <<"F", "A", "I", "L", "E", "D">>, <<"a", "s", "s", "e", "r", "t">> >>,
      << <<"E", "x", "p", "e", "c", "t", "e", "d">>, <<"b", "u", "t", " ", "g", "o", "t">> >>,
      << <<"T", "e", "s", "t", " ", "f", "a", "i", "l", "e", "d">> >>,
      << <<"t", "e", "s", "t">>, <<"F", "A", "I", "L", "E", "D">> >>,
      << <<"F", "A", "I", "L", ":">> >>,
      << <<"f", "a", "i", "l", "u", "r", "e", "s", "=", Digit>> >>,
      << <<"e", "r", "r", "o", "r", "s", "=", Digit>> >> }

RUNTIME_PATTERNS ==
    { << <<"T", "y", "p", "e", "E", "r", "r", "o", "r">> >>,
      << <<"V", "a", "l", "u", "e", "E", "r", "r", "o", "r">> >>,
      << <<"K", "e", "y", "E", "r", "r", "o", "r">> >>,
      << <<"I", "n", "d", "e", "x", "E", "r", "r", "o", "r">> >>,
      << <<"A", "t", "t", "r", "i", "b", "u", "t", "e", "E", "r", "r", "o", "r">> >>,
      << <<"R", "u", "n", "t", "i", "m", "e", "E", "r", "r", "o", "r">> >>,
      << <<"Z", "e", "r", "o", "D", "i", "v", "i", "s", "i", "o", "n", "E", "r", "r", "o", "r">> >>,
      << <<"F", "i", "l", "e", "N", "o", "t", "F", "o", "u", "n", "d", "E", "r", "r", "o", "r">> >>,
      << <<"P", "e", "r", "m", "i", "s", "s", "i", "o", "n", "E", "r", "r", "o", "r">> >>,
      << <<"O", "S", "E", "r", "r", "o", "r">> >>,
      << <<"T", "r", "a", "c", "e", "b", "a", "c", "k", " ", "(", "m", "o", "s", "t", " ", "r", "e", "c", "e", "n", "t", " ", "c", "a", "l", "l", " ", "l", "a", "s", "t", ")">> >>,
      << <<"p", "a", "n", "i", "c", ":">> >>,
      << <<"S", "e", "g", "m", "e", "n", "t", "a", "t", "i", "o", "n", " ", "f", "a", "u", "l", "t">> >> }

CONFIG_PATTERNS ==
    { << <<"F", "i", "l", "e", "N", "o", "t", "F", "o", "u", "n", "d", "E", "r", "r", "o", "r">>, <<"c", "o", "n", "f", "i", "g">> >>,
      << <<"N", "o", " ", "s", "u", "c", "h", " ", "f", "i", "l", "e", " ", "o", "r", " ", "d", "i", "r", "e", "c", "t", "o", "r", "y">> >>,
      << <<"e", "n", "v", "i", "r", "o", "n", "m", "e", "n", "t", " ", "v", "a", "r", "i", "a", "b", "l", "e">>, <<"n", "o", "t", " ", "s", "e", "t">> >>,
      << <<"m", "i", "s", "s", "i", "n", "g">>, <<"c", "o", "n", "f", "i", "g", "u", "r", "a", "t", "i", "o", "n">> >>,
      << <<"E", "N", "O", "E", "N", "T">> >> }

\* re.IGNORECASE folds the case of a letter
LowerChar(c) ==
    CASE c = "A" -> "a" [] c = "B" -> "b" [] c = "C" -> "c"
      [] c = "D" -> "d" [] c = "E" -> "e" [] c = "F" -> "f"
      [] c = "G" -> "g" [] c = "H" -> "h" [] c = "I" -> "i"
      [] c = "J" -> "j" [] c = "K" -> "k" [] c = "L" -> "l"
      [] c = "M" -> "m" [] c = "N" -> "n" [] c = "O" -> "o"
      [] c = "P" -> "p" [] c = "Q" -> "q" [] c = "R" -> "r"
      [] c = "S" -> "s" [] c = "T" -> "t" [] c = "U" -> "u"
      [] c = "V" -> "v" [] c = "W" -> "w" [] c = "X" -> "x"
      [] c = "Y" -> "y" [] c = "Z" -> "z"
      [] OTHER -> c

\* Whether character c of the text is matched by element p of a piece
CharMatches(p, c) ==
    IF p = Digit THEN c \in Digits
    ELSE IF p = Quote THEN c \in {"'", "\""}
    ELSE LowerChar(p) = LowerChar(c)

\* Whether the piece matches the text at position i
PieceAt(piece, t, i) ==
    /\ i + Len(piece) - 1 <= Len(t)
    /\ \A k \in 1..Len(piece) : CharMatches(piece[k], t[i + k - 1])

\* Whether pieces k.. of the pattern match from position from on, each after
\* a `.*`, which matches any characters except a newline
RECURSIVE RestMatches(_, _, _, _)
RestMatches(pattern, k, t, from) ==
    IF k > Len(pattern) THEN TRUE
    ELSE \E j \in from..Len(t) :
             /\ \A m \in from..(j - 1) : t[m] # "\n"
             /\ PieceAt(pattern[k], t, j)
             /\ RestMatches(pattern, k + 1, t, j + Len(pattern[k]))

\* re.search(pattern, text, re.IGNORECASE)
Search(pattern, t) ==
    \E i \in 1..Len(t) :
        /\ PieceAt(pattern[1], t, i)
        /\ RestMatches(pattern, 2, t, i + Len(pattern[1]))

\* ErrorClassifier._matches_any
MatchesAny(t, patterns) == \E p \in patterns : Search(p, t)

ClassifiedError(category, severity, auto_fixable) ==
    [category |-> category, severity |-> severity,
     auto_fixable |-> auto_fixable]

ClassifyRuntimeFirst(t) ==
    IF MatchesAny(t, SYNTAX_PATTERNS)
    THEN ClassifiedError("syntax", "low", FALSE)
    ELSE IF MatchesAny(t, RUNTIME_PATTERNS)
    THEN ClassifiedError("runtime", "medium", FALSE)
    ELSE IF MatchesAny(t, DEPENDENCY_PATTERNS)
    THEN ClassifiedError("dependency", "low", TRUE)
    ELSE IF MatchesAny(t, CONFIG_PATTERNS)
    THEN ClassifiedError("configuration", "medium", FALSE)
    ELSE IF MatchesAny(t, LOGIC_PATTERNS)
    THEN ClassifiedError("logic", "medium", FALSE)
    ELSE ClassifiedError("unknown", "medium", FALSE)

\* ErrorClassifier.classify
Classify(t) ==
    IF MatchesAny(t, SYNTAX_PATTERNS)
    THEN ClassifiedError("syntax", "low", FALSE)
    ELSE IF MatchesAny(t, DEPENDENCY_PATTERNS)
    THEN ClassifiedError("dependency", "low", TRUE)
    ELSE IF MatchesAny(t, CONFIG_PATTERNS)
    THEN ClassifiedError("configuration", "medium", FALSE)
    ELSE IF MatchesAny(t, LOGIC_PATTERNS)
    THEN ClassifiedError("logic", "medium", FALSE)
    ELSE IF MatchesAny(t, RUNTIME_PATTERNS)
    THEN ClassifiedError("runtime", "medium", FALSE)
    ELSE ClassifiedError("unknown", "medium", FALSE)

\* The fragments error outputs are made of
Fragments ==
    { <<"T", "a", "b", "E", "r", "r", "o", "r">>,
      <<"N", "o", " ", "m", "o", "d", "u", "l", "e", " ", "n", "a", "m", "e", "d">>,
      <<"K", "e", "y", "E", "r", "r", "o", "r">>,
      <<"E", "N", "O", "E", "N", "T">>,
      <<"F", "A", "I", "L", ":">>,
      <<"e", "x", "p", "e", "c", "t", "e", "d">>,
      <<"'">>,
      <<"\n">>,
      <<"f", "i", "l", "e", "n", "o", "t", "f", "o", "u", "n", "d", "e", "r", "r", "o", "r">>,
      <<" ", "c", "o", "n", "f", "i", "g">> }

RECURSIVE Join(_)
Join(fs) == IF fs = <<>> THEN <<>> ELSE Head(fs) \o Join(Tail(fs))

ErrorOutputs ==
    { Join(fs) : fs \in UNION { [1..n -> Fragments] : n \in 0..MaxFragments } }

InitClassifyVars ==
    /\ error_output \in ErrorOutputs
    /\ classified = <<>>

IdleClassifyVars ==
    /\ error_output = <<>>
    /\ classified = <<>>

ClassifyCall ==
    /\ classified = <<>>
    /\ classified' = <<Classify(error_output)>>
    /\ UNCHANGED <<error_output, nonClassifyVars>>

NextClassify == ClassifyCall

(***************************************************************************)
(* Resume state: save_state, load_state, clear_state (src/forge/build/      *)
(* resume.py)                                                              *)
(***************************************************************************)
MaxSavedRounds == 2  \* most rounds passed to one save_state call

\* A JSON value is tagged with its type.  A round passed to save_state is a
\* dict whose "stamp" may be a value json cannot encode (a datetime).
JInt(n) == [type |-> "int", int |-> n]
JFloat(n) == [type |-> "float", float |-> n]
JBool(b) == [type |-> "bool", bool |-> b]
JStr(s) == [type |-> "str", str |-> s]
JArray(a) == [type |-> "array", items |-> a]
JObject(members) == [type |-> "object", members |-> members]
PyObject(repr) == [type |-> "pyobject", repr |-> repr]

SavedRounds == { [phase |-> JStr("PLAN"), stamp |-> JInt(1)],
                 [phase |-> JStr("CODE"), stamp |-> PyObject("2026-01-01")] }

SaveArgs ==
    [objective : {"Build a CLI", ""},
     rounds : UNION { [1..n -> SavedRounds] : n \in 0..MaxSavedRounds },
     last_phase : {"PLAN", "REVIEW"},
     agents : { [planner |-> "gemini", coder |-> "claude-sonnet"],
                [planner |-> "", coder |-> ""] }]

\* json.dumps(..., default=str) on one value: what json cannot encode is
\* written as the string str() gives
Encode(value) ==
    IF value.type = "pyobject" THEN JStr(value.repr) ELSE value

EncodeRound(r) == [k \in DOMAIN r |-> Encode(r[k])]

StateOfVersion2(args) ==
    [version |-> JInt(2),
     objective |-> JStr(args.objective),
     planner |-> JStr(args.agents.planner),
     coder |-> JStr(args.agents.coder),
     last_phase |-> JStr(args.last_phase),
     plan_output |-> JStr(""),
     rounds |-> JArray([i \in 1..Len(args.rounds) |->
                           JObject(EncodeRound(args.rounds[i]))])]

\* The state dict of save_state as json.dumps writes it
StateOf(args) ==
    [version |-> JInt(1),
     objective |-> JStr(args.objective),
     planner |-> JStr(args.agents.planner),
     coder |-> JStr(args.agents.coder),
     last_phase |-> JStr(args.last_phase),
     plan_output |-> JStr(""),
     rounds |-> JArray([i \in 1..Len(args.rounds) |->
                           JObject(EncodeRound(args.rounds[i]))])]

\* What the state file can hold: nothing (NoFile), bytes that are not
\* UTF-8 text, text that is not JSON, or the text of a JSON value.
NoFile == [kind |-> "missing"]
Undecodable == [kind |-> "undecodable"]
Malformed == [kind |-> "malformed"]
JsonText(value) == [kind |-> "json", value |-> value]

\* Contents left in the state file by something other than save_state
ForeignContents ==
    { Undecodable, Malformed,
      JsonText(JArray(<<>>)), JsonText(JStr("x")), JsonText(JInt(42)),
      JsonText(JObject([objective |-> JStr("x")])),
      JsonText(JObject([version |-> JInt(99)])),
      JsonText(JObject([version |-> JStr("1")])),
      JsonText(JObject([version |-> JFloat(1)])),
      JsonText(JObject([version |-> JBool(TRUE)])) }

\* Python `value != 1`
DiffersFromOne(value) ==
    CASE value.type = "int" -> value.int # 1
      [] value.type = "float" -> value.float # 1
      [] value.type = "bool" -> ~value.bool
      [] OTHER -> TRUE

Returned(state) == [result |-> "state", state |-> state]
ReturnedNone == [result |-> "none"]
Raised(error) == [result |-> "raised", error |-> error]

\* load_state
LoadState(file) ==
    IF file.kind = "missing" THEN ReturnedNone
    ELSE IF file.kind = "undecodable" THEN Raised("UnicodeDecodeError")
    ELSE IF file.kind = "malformed" THEN ReturnedNone
    ELSE IF file.value.type # "object" THEN Raised("AttributeError")
    ELSE IF "version" \notin DOMAIN file.value.members THEN ReturnedNone
    ELSE IF DiffersFromOne(file.value.members.version) THEN ReturnedNone
    ELSE Returned(file.value.members)

InitResumeVars ==
    /\ state_file = NoFile
    /\ saved = <<>>
    /\ loaded = <<>>

IdleResumeVars ==
    /\ state_file = NoFile
    /\ saved = <<>>
    /\ loaded = <<>>

\* save_state(working_dir, objective, rounds, last_phase, ...)
SaveStateCall ==
    /\ \E args \in SaveArgs :
           /\ state_file' = JsonText(JObject(StateOf(args)))
           /\ saved' = <<args>>
    /\ loaded' = <<>>
    /\ UNCHANGED nonResumeVars

\* load_state(working_dir)
LoadStateCall ==
    /\ loaded = <<>>
    /\ loaded' = <<LoadState(state_file)>>
    /\ UNCHANGED <<state_file, saved, nonResumeVars>>

\* clear_state(working_dir)
ClearStateCall ==
    /\ state_file' = NoFile
    /\ saved' = <<>>
    /\ loaded' = <<>>
    /\ UNCHANGED nonResumeVars

\* The file is truncated by a crash or written by another program
ForeignWrite ==
    /\ \E c \in ForeignContents : state_file' = c
    /\ saved' = <<>>
    /\ loaded' = <<>>
    /\ UNCHANGED nonResumeVars

NextResume ==
    \/ SaveStateCall
    \/ LoadStateCall
    \/ ClearStateCall
    \/ ForeignWrite

(***************************************************************************)
(* Parallel dispatch: ForgeEngine.dispatch_all and dispatch_agents          *)
(* (src/forge/engine.py)                                                   *)
(***************************************************************************)
MaxAgents == 3       \* most agents one parallel dispatch is made to
MaxParallel == 2     \* largest config.global_.max_parallel

EngineAgents == <<"claude", "gemini", "copilot", "claude-opus", "gemini-pro">>

\* One parallel dispatch: the routine called, the agents of its tasks in
\* task order, the agents the engine has an adapter for, and max_parallel.
\* dispatch_all makes a task for each available adapter only.
ParallelDispatches ==
    { d \in [via : {"dispatch_all", "dispatch_agents"},
             names : { SubSeq(EngineAgents, 1, n) : n \in 1..MaxAgents },
             adapters : SUBSET { EngineAgents[i] : i \in 1..MaxAgents },
             max_parallel : 0..MaxParallel] :
        /\ \A i \in 1..Len(d.names) : d.names[i] \in d.adapters
               \/ d.via = "dispatch_agents"
        /\ d.adapters \subseteq { d.names[i] : i \in 1..Len(d.names) } }

EnterAlways(value) == TRUE

\* asyncio.Semaphore: `async with semaphore` is entered when the value is
\* positive
Enter(value) == value > 0

InitDispatchVars ==
    /\ fanout \in ParallelDispatches
    /\ tasks = [i \in 1..Len(fanout.names) |-> "waiting"]
    /\ semaphore = fanout.max_parallel

IdleDispatchVars ==
    /\ fanout = [via |-> "none", names |-> <<>>, adapters |-> {},
                 max_parallel |-> 0]
    /\ tasks = <<>>
    /\ semaphore = 0

\* A task enters the semaphore and awaits adapter.execute(ctx)
ExecuteBegin ==
    \E i \in 1..Len(tasks) :
        /\ tasks[i] = "waiting"
        /\ fanout.names[i] \in fanout.adapters
        /\ Enter(semaphore)
        /\ semaphore' = semaphore - 1
        /\ tasks' = [tasks EXCEPT ![i] = "executing"]
        /\ UNCHANGED <<fanout, nonDispatchVars>>

\* adapter.execute returns (with any status) or raises; the semaphore is left
ExecuteEnd ==
    \E i \in 1..Len(tasks) :
        /\ tasks[i] = "executing"
        /\ semaphore' = semaphore + 1
        /\ \E how \in {"returned", "raised"} :
               tasks' = [tasks EXCEPT ![i] = how]
        /\ UNCHANGED <<fanout, nonDispatchVars>>

\* dispatch_single for an agent without an adapter returns UNAVAILABLE
\* inside the semaphore without awaiting anything
NotConfigured ==
    \E i \in 1..Len(tasks) :
        /\ tasks[i] = "waiting"
        /\ fanout.names[i] \notin fanout.adapters
        /\ Enter(semaphore)
        /\ tasks' = [tasks EXCEPT ![i] = "returned"]
        /\ UNCHANGED <<fanout, semaphore, nonDispatchVars>>

NextDispatch ==
    \/ ExecuteBegin
    \/ ExecuteEnd
    \/ NotConfigured

(***************************************************************************)
(* Interactive duo run: DuoBuildPipeline.run with pipeline.interactive set  *)
(* (src/forge/cli.py), pausing after the plan and after each review         *)
(***************************************************************************)
\* _interactive_pause: what it returns for a line typed by the user, or for
\* end of input
InteractivePause(typed) ==
    CASE typed = "" -> "continue"
      [] typed = "n" -> "abort"
      [] typed = "EOF" -> "abort"
      [] OTHER -> typed

TypedAtPause == {"", "n", "EOF", "Add error handling"}

\* Pause points reached so far: one after a plan that succeeded, one after
\* each review that did not approve
RECURSIVE PausePoints(_, _)
PausePoints(rs, i) ==
    IF i = 0 THEN 0
    ELSE PausePoints(rs, i - 1)
         + (IF \/ rs[i].phase = PHASE_PLAN /\ rs[i].success
               \/ rs[i].phase = PHASE_REVIEW /\ ~IsApproved(rs[i].output)
            THEN 1 ELSE 0)

\* run() is waiting at a pause point for the user's answer
PausePending ==
    /\ interactive
    /\ ~aborted
    /\ answered < PausePoints(rounds, Len(rounds))

ProceedsAlways(was_aborted) == TRUE

\* Whether run() goes on to its next statement
Proceeds(was_aborted) == ~was_aborted

InitInteractiveVars ==
    /\ interactive = TRUE
    /\ answered = 0
    /\ aborted = FALSE

IdleInteractiveVars ==
    /\ interactive = FALSE
    /\ answered = 0
    /\ aborted = FALSE

\* The user answers at a pause point
AnswerPause ==
    /\ PausePending
    /\ \E typed \in TypedAtPause :
           aborted' = (InteractivePause(typed) = "abort")
    /\ answered' = answered + 1
    /\ UNCHANGED <<interactive, nonInteractiveVars>>

\* A statement of run(), taken when no answer is awaited and the run was
\* not aborted
RunStep ==
    /\ ~PausePending
    /\ Proceeds(aborted)
    /\ \/ Scaffold
       \/ DispatchNotFound
       \/ DispatchUnavailable
       \/ DispatchStart
       \/ AgentReturn
       \/ AgentTimeout
       \/ VerifyBegin
       \/ VerifyEnd
       \/ Finalize

NextInteractive ==
    \/ AnswerPause
    \/ RunStep
    \/ OrphanExit

(***************************************************************************)
(* Repeated failures: ErrorClassifier.classify_repeated_failures            *)
(***************************************************************************)
MaxHistory == 4      \* most classifications in a history
RepeatWindow == 3

\* Classifications classify returns, of which histories are made
Classifications ==
    { ClassifiedError("syntax", "low", FALSE),
      ClassifiedError("dependency", "low", TRUE),
      ClassifiedError("logic", "medium", FALSE),
      ClassifiedError("unknown", "medium", FALSE) }

Histories == UNION { [1..n -> Classifications] : n \in 0..MaxHistory }

ArchitectureVerdict == ClassifiedError("architecture", "high", FALSE)

ClassifyRepeatedFailuresFirstThree(errors) ==
    IF Len(errors) < RepeatWindow
    THEN IF errors # <<>> THEN errors[Len(errors)]
         ELSE ClassifiedError("unknown", "medium", FALSE)
    ELSE IF Cardinality({ errors[i].category : i \in 1..RepeatWindow }) = 1
    THEN ArchitectureVerdict
    ELSE errors[Len(errors)]

\* ErrorClassifier.classify_repeated_failures
ClassifyRepeatedFailures(errors) ==
    IF Len(errors) < RepeatWindow
    THEN IF errors # <<>> THEN errors[Len(errors)]
         ELSE ClassifiedError("unknown", "medium", FALSE)
    ELSE IF Cardinality({ errors[i].category :
                            i \in (Len(errors) - RepeatWindow + 1)..Len(errors) }) = 1
    THEN ArchitectureVerdict
    ELSE errors[Len(errors)]

InitRepeatedVars ==
    /\ history \in Histories
    /\ repeated = <<>>

IdleRepeatedVars ==
    /\ history = <<>>
    /\ repeated = <<>>

ClassifyRepeatedCall ==
    /\ repeated = <<>>
    /\ repeated' = <<ClassifyRepeatedFailures(history)>>
    /\ UNCHANGED <<history, nonRepeatedVars>>

NextRepeated == ClassifyRepeatedCall

(***************************************************************************)
(* Retrying dispatch: execute_with_spinner (src/forge/build/phases/        *)
(* dispatch.py)                                                            *)
(***************************************************************************)
MaxRetries == 2      \* largest max_retries the function is called with

\* How one execute_fn(ctx) task can end: an AgentResult with one of the
\* statuses, or an exception raised by task.result().
ResultStatuses == {"success", "failed", "timeout", "unavailable"}
CaughtErrors == {"TimeoutError", "OSError"}
OtherErrors == {"RuntimeError"}
TaskEndings ==
    { [kind |-> "result", what |-> st] : st \in ResultStatuses }
        \cup { [kind |-> "raised", what |-> e] :
                 e \in CaughtErrors \cup OtherErrors }

\* AgentResult.is_success
IsSuccess(ending) == ending.kind = "result" /\ ending.what = "success"

RetriesWhateverTheResult(ending, attempt_no) == attempt_no < max_retries

\* `if not result.is_success and attempt < max_retries` for a result, and
\* `if attempt < max_retries` in the handler of the caught exceptions
Retries(ending, attempt_no) ==
    /\ attempt_no < max_retries
    /\ \/ ending.kind = "result" /\ ~IsSuccess(ending)
       \/ ending.kind = "raised" /\ ending.what \in CaughtErrors

InitSpinnerVars ==
    /\ max_retries \in -1..MaxRetries
    /\ spin_pc = "LOOP"
    /\ tasks_created = 0
    /\ tries = <<>>
    /\ spun = <<>>

IdleSpinnerVars ==
    /\ max_retries = 0
    /\ spin_pc = "DONE"
    /\ tasks_created = 0
    /\ tries = <<>>
    /\ spun = <<>>

\* One more pass of `for attempt in range(max_retries + 1)`: the task of
\* execute_fn(ctx) is created
CreateTask ==
    /\ spin_pc = "LOOP"
    /\ Len(tries) < max_retries + 1
    /\ tasks_created' = tasks_created + 1
    /\ spin_pc' = "AWAIT"
    /\ UNCHANGED <<max_retries, tries, spun, nonSpinnerVars>>

\* The task is done: task.result() gives the result or raises, and the
\* attempt (numbered from 0) ends in `continue`, `return result` or a raise
TaskDone ==
    /\ spin_pc = "AWAIT"
    /\ \E ending \in TaskEndings :
           /\ tries' = Append(tries, ending)
           /\ IF Retries(ending, Len(tries))
              THEN spin_pc' = "LOOP" /\ spun' = spun
              ELSE spin_pc' = "DONE" /\ spun' = <<ending>>
    /\ UNCHANGED <<max_retries, tasks_created, nonSpinnerVars>>

\* The loop ran out: `return task.result()` after it, which is the ending of
\* the last task, or an UnboundLocalError when no task was ever created
AfterLoop ==
    /\ spin_pc = "LOOP"
    /\ Len(tries) >= max_retries + 1
    /\ spin_pc' = "DONE"
    /\ spun' = IF tries = <<>>
               THEN <<[kind |-> "raised", what |-> "UnboundLocalError"]>>
               ELSE <<tries[Len(tries)]>>
    /\ UNCHANGED <<max_retries, tasks_created, tries, nonSpinnerVars>>

NextSpinner ==
    \/ CreateTask
    \/ TaskDone
    \/ AfterLoop

(***************************************************************************)
(* Orchestration modes: Orchestrator.run and its handlers                  *)
(* (src/forge/orchestrate.py)                                              *)
(***************************************************************************)
MaxOrchAgents == 3   \* longest agent list a session is run with
MaxSubtasks == 2     \* most subtasks parsed from a planner output

OrchestrateModes ==
    {"single", "parallel", "chain", "review", "consensus", "swarm"}

OrchAgents == {"claude", "gemini"}

\* agent_list of run; the empty list stands for no agent being available
AgentLists == UNION { [1..n -> OrchAgents] : n \in 0..MaxOrchAgents }

\* What an AgentResult of the engine can hold: is_success and cost_usd
\* (NoCost for None)
Outcomes == [is_success : BOOLEAN, cost_usd : {NoCost, <<2>>}]

\* AgentResult number id of the session, returned for the agent
AgentResultOf(id, agent, o) ==
    [id |-> id, agent_name |-> agent, is_success |-> o.is_success,
     cost_usd |-> o.cost_usd]

\* The results engine.dispatch_single can return for the next dispatch
DispatchSingle(agent) ==
    { AgentResultOf(Len(calls) + 1, agent, o) : o \in Outcomes }

\* The result lists a gather over dispatch_single of the names can return,
\* in the order of the names
Gather(names) ==
    { [i \in 1..Len(names) |->
           AgentResultOf(Len(calls) + i, names[i], f[i])] :
        f \in [1..Len(names) -> Outcomes] }

\* `result.cost_usd or 0`
CostOrZero(r) == IF r.cost_usd = NoCost THEN 0 ELSE r.cost_usd[1]

\* ResultAggregator.total_cost_usd
RECURSIVE TotalCostUsd(_)
TotalCostUsd(results) ==
    IF results = <<>> THEN 0
    ELSE CostOrZero(Head(results)) + TotalCostUsd(Tail(results))

OrchestrationRound(round_number, agent, role, r) ==
    [round_number |-> round_number, agent_name |-> agent, role |-> role,
     result |-> r]

OrchestrationResult(mode, rs, total_cost_usd) ==
    [mode |-> mode, rounds |-> rs, total_cost_usd |-> total_cost_usd]

\* The rounds appended for the results of one gather
RoundsOf(round_number, role, results) ==
    [i \in 1..Len(results) |->
        OrchestrationRound(round_number, results[i].agent_name, role,
                           results[i])]

InitOrchestrateVars ==
    /\ orch \in [mode : OrchestrateModes, agents : AgentLists]
    /\ opc = "RUN"
    /\ calls = <<>>
    /\ orounds = <<>>
    /\ total_cost = 0
    /\ subtasks = <<>>
    /\ oresult = <<>>

IdleOrchestrateVars ==
    /\ orch = [mode |-> "single", agents |-> <<>>]
    /\ opc = "DONE"
    /\ calls = <<>>
    /\ orounds = <<>>
    /\ total_cost = 0
    /\ subtasks = <<>>
    /\ oresult = <<>>

\* `return OrchestrationResult(rounds=rounds, total_cost_usd=total_cost)` of
\* a handler whose locals end as given
Return(rs, cost) ==
    /\ oresult' = <<OrchestrationResult(orch.mode, rs, cost)>>
    /\ opc' = "DONE"

\* run with an empty agent_list
NoAgents ==
    /\ opc = "RUN"
    /\ orch.agents = <<>>
    /\ oresult' = <<OrchestrationResult(orch.mode, <<>>, 0)>>
    /\ opc' = "DONE"
    /\ UNCHANGED <<orch, calls, orounds, total_cost, subtasks,
                   nonOrchestrateVars>>

\* _run_single, called by run, by _run_review for fewer than two agents and
\* by _run_swarm when no subtask was parsed: it builds its own result
RunSingle ==
    /\ orch.agents # <<>>
    /\ \/ opc = "RUN" /\ orch.mode = "single"
       \/ opc = "RUN" /\ orch.mode = "review" /\ Len(orch.agents) < 2
       \/ opc = "PLANNED" /\ subtasks = <<>>
    /\ \E r \in DispatchSingle(orch.agents[1]) :
           /\ calls' = Append(calls, r)
           /\ oresult' =
                  <<OrchestrationResult(
                        "single",
                        <<OrchestrationRound(1, orch.agents[1], "producer",
                                             r)>>,
                        CostOrZero(r))>>
    /\ opc' = "DONE"
    /\ UNCHANGED <<orch, orounds, total_cost, subtasks, nonOrchestrateVars>>

\* _run_parallel
RunParallel ==
    /\ opc = "RUN"
    /\ orch.agents # <<>>
    /\ orch.mode = "parallel"
    /\ \E results \in Gather(orch.agents) :
           /\ calls' = calls \o results
           /\ orounds' = RoundsOf(1, "producer", results)
           /\ total_cost' = TotalCostUsd(results)
           /\ Return(orounds', total_cost')
    /\ UNCHANGED <<orch, subtasks, nonOrchestrateVars>>

\* One pass of the loop of _run_chain
ChainStep ==
    /\ opc = "RUN"
    /\ orch.mode = "chain"
    /\ Len(orounds) < Len(orch.agents)
    /\ LET i == Len(orounds)
           agent == orch.agents[i + 1]
       IN  \E r \in DispatchSingle(agent) :
               /\ calls' = Append(calls, r)
               /\ orounds' =
                      Append(orounds,
                             OrchestrationRound(
                                 i + 1, agent,
                                 IF i = 0 THEN "initiator" ELSE "improver",
                                 r))
               /\ total_cost' = total_cost + CostOrZero(r)
    /\ UNCHANGED <<orch, opc, subtasks, oresult, nonOrchestrateVars>>

\* The return of _run_chain after the loop
ChainReturn ==
    /\ opc = "RUN"
    /\ orch.mode = "chain"
    /\ orch.agents # <<>>
    /\ Len(orounds) = Len(orch.agents)
    /\ Return(orounds, total_cost)
    /\ UNCHANGED <<orch, calls, orounds, total_cost, subtasks,
                   nonOrchestrateVars>>

\* _run_review, round 1: the producer; a failed result is returned at once
ReviewProduce ==
    /\ opc = "RUN"
    /\ orch.mode = "review"
    /\ Len(orch.agents) >= 2
    /\ \E r \in DispatchSingle(orch.agents[1]) :
           /\ calls' = Append(calls, r)
           /\ orounds' =
                  <<OrchestrationRound(1, orch.agents[1], "producer", r)>>
           /\ total_cost' = total_cost + CostOrZero(r)
           /\ IF r.is_success
              THEN opc' = "PRODUCED" /\ oresult' = oresult
              ELSE Return(orounds', total_cost')
    /\ UNCHANGED <<orch, subtasks, nonOrchestrateVars>>

\* _run_review, round 2: the reviewer
ReviewCritique ==
    /\ opc = "PRODUCED"
    /\ \E r \in DispatchSingle(orch.agents[2]) :
           /\ calls' = Append(calls, r)
           /\ orounds' =
                  Append(orounds,
                         OrchestrationRound(2, orch.agents[2], "reviewer",
                                            r))
           /\ total_cost' = total_cost + CostOrZero(r)
    /\ opc' = "CRITIQUED"
    /\ UNCHANGED <<orch, subtasks, oresult, nonOrchestrateVars>>

\* _run_review, round 3: the refiner, and the return
ReviewRefine ==
    /\ opc = "CRITIQUED"
    /\ LET refiner == IF Len(orch.agents) >= 3 THEN orch.agents[3]
                      ELSE orch.agents[1]
       IN  \E r \in DispatchSingle(refiner) :
               /\ calls' = Append(calls, r)
               /\ orounds' =
                      Append(orounds,
                             OrchestrationRound(3, refiner, "refiner", r))
               /\ total_cost' = total_cost + CostOrZero(r)
               /\ Return(orounds', total_cost')
    /\ UNCHANGED <<orch, subtasks, nonOrchestrateVars>>

\* _run_consensus, phase 1: all agents produce; with at most one success
\* the result is returned
ConsensusProduce ==
    /\ opc = "RUN"
    /\ orch.agents # <<>>
    /\ orch.mode = "consensus"
    /\ \E results \in Gather(orch.agents) :
           /\ calls' = calls \o results
           /\ orounds' = RoundsOf(1, "producer", results)
           /\ total_cost' = total_cost + TotalCostUsd(results)
           /\ IF Cardinality({ i \in 1..Len(results) :
                                 results[i].is_success }) <= 1
              THEN Return(orounds', total_cost')
              ELSE opc' = "JUDGE" /\ oresult' = oresult
    /\ UNCHANGED <<orch, subtasks, nonOrchestrateVars>>

\* _run_consensus, phase 2: the first successful agent judges
ConsensusJudge ==
    /\ opc = "JUDGE"
    /\ LET first == CHOOSE i \in 1..Len(orounds) :
                        /\ orounds[i].result.is_success
                        /\ \A j \in 1..(i - 1) :
                               ~orounds[j].result.is_success
           judge == orounds[first].agent_name
       IN  \E r \in DispatchSingle(judge) :
               /\ calls' = Append(calls, r)
               /\ orounds' =
                      Append(orounds,
                             OrchestrationRound(2, judge, "judge", r))
               /\ total_cost' = total_cost + CostOrZero(r)
               /\ Return(orounds', total_cost')
    /\ UNCHANGED <<orch, subtasks, nonOrchestrateVars>>

\* _run_swarm, phase 1: the planner is dispatched and recorded, and
\* _parse_subtasks gives the agent of each subtask found in its output
SwarmPlan ==
    /\ opc = "RUN"
    /\ orch.agents # <<>>
    /\ orch.mode = "swarm"
    /\ \E r \in DispatchSingle(orch.agents[1]) :
           /\ calls' = Append(calls, r)
           /\ orounds' =
                  <<OrchestrationRound(1, orch.agents[1], "planner", r)>>
           /\ total_cost' = total_cost + CostOrZero(r)
    /\ \E n \in 0..MaxSubtasks :
       \E st \in [1..n -> { orch.agents[i] : i \in 1..Len(orch.agents) }] :
           subtasks' = st
    /\ opc' = "PLANNED"
    /\ UNCHANGED <<orch, oresult, nonOrchestrateVars>>

\* _run_swarm, phases 2 and 3: the subtasks are gathered and recorded
SwarmWork ==
    /\ opc = "PLANNED"
    /\ subtasks # <<>>
    /\ \E results \in Gather(subtasks) :
           /\ calls' = calls \o results
           /\ orounds' = orounds \o RoundsOf(2, "worker", results)
           /\ total_cost' = total_cost + TotalCostUsd(results)
           /\ Return(orounds', total_cost')
    /\ UNCHANGED <<orch, subtasks, nonOrchestrateVars>>

NextOrchestrate ==
    \/ NoAgents
    \/ RunSingle
    \/ RunParallel
    \/ ChainStep
    \/ ChainReturn
    \/ ReviewProduce
    \/ ReviewCritique
    \/ ReviewRefine
    \/ ConsensusProduce
    \/ ConsensusJudge
    \/ SwarmPlan
    \/ SwarmWork

(***************************************************************************)
(* Specifications                                                          *)
(***************************************************************************)
InitApproval ==
    /\ InitApprovalVars
    /\ IdleDuoVars
    /\ IdleExtractVars
    /\ IdleBuildVars
    /\ IdleVerifyVars
    /\ IdleMemoryVars
    /\ IdleRollbackVars
    /\ IdleClassifyVars
    /\ IdleResumeVars
    /\ IdleDispatchVars
    /\ IdleInteractiveVars
    /\ IdleRepeatedVars
    /\ IdleSpinnerVars
    /\ IdleOrchestrateVars
NextApproval == CheckApproval
SpecApproval == InitApproval /\ [][NextApproval]_vars

InitDuo ==
    /\ IdleApprovalVars
    /\ InitDuoVars
    /\ IdleExtractVars
    /\ IdleBuildVars
    /\ IdleVerifyVars
    /\ IdleMemoryVars
    /\ IdleRollbackVars
    /\ IdleClassifyVars
    /\ IdleResumeVars
    /\ IdleDispatchVars
    /\ IdleInteractiveVars
    /\ IdleRepeatedVars
    /\ IdleSpinnerVars
    /\ IdleOrchestrateVars
SpecDuo == InitDuo /\ [][NextDuo]_vars

InitExtract ==
    /\ IdleApprovalVars
    /\ IdleDuoVars
    /\ InitExtractVars
    /\ IdleBuildVars
    /\ IdleVerifyVars
    /\ IdleMemoryVars
    /\ IdleRollbackVars
    /\ IdleClassifyVars
    /\ IdleResumeVars
    /\ IdleDispatchVars
    /\ IdleInteractiveVars
    /\ IdleRepeatedVars
    /\ IdleSpinnerVars
    /\ IdleOrchestrateVars
NextExtract == ExtractFiles
SpecExtract == InitExtract /\ [][NextExtract]_vars

InitBuild ==
    /\ IdleApprovalVars
    /\ IdleDuoVars
    /\ IdleExtractVars
    /\ InitBuildVars
    /\ IdleVerifyVars
    /\ IdleMemoryVars
    /\ IdleRollbackVars
    /\ IdleClassifyVars
    /\ IdleResumeVars
    /\ IdleDispatchVars
    /\ IdleInteractiveVars
    /\ IdleRepeatedVars
    /\ IdleSpinnerVars
    /\ IdleOrchestrateVars
SpecBuild == InitBuild /\ [][NextBuild]_vars

InitVerify ==
    /\ IdleApprovalVars
    /\ IdleDuoVars
    /\ IdleExtractVars
    /\ IdleBuildVars
    /\ InitVerifyVars
    /\ IdleMemoryVars
    /\ IdleRollbackVars
    /\ IdleClassifyVars
    /\ IdleResumeVars
    /\ IdleDispatchVars
    /\ IdleInteractiveVars
    /\ IdleRepeatedVars
    /\ IdleSpinnerVars
    /\ IdleOrchestrateVars
SpecVerify == InitVerify /\ [][NextVerify]_vars

InitMemory ==
    /\ IdleApprovalVars
    /\ IdleDuoVars
    /\ IdleExtractVars
    /\ IdleBuildVars
    /\ IdleVerifyVars
    /\ InitMemoryVars
    /\ IdleRollbackVars
    /\ IdleClassifyVars
    /\ IdleResumeVars
    /\ IdleDispatchVars
    /\ IdleInteractiveVars
    /\ IdleRepeatedVars
    /\ IdleSpinnerVars
    /\ IdleOrchestrateVars
SpecMemory == InitMemory /\ [][NextMemory]_vars

InitRollback ==
    /\ IdleApprovalVars
    /\ IdleDuoVars
    /\ IdleExtractVars
    /\ IdleBuildVars
    /\ IdleVerifyVars
    /\ IdleMemoryVars
    /\ InitRollbackVars
    /\ IdleClassifyVars
    /\ IdleResumeVars
    /\ IdleDispatchVars
    /\ IdleInteractiveVars
    /\ IdleRepeatedVars
    /\ IdleSpinnerVars
    /\ IdleOrchestrateVars
SpecRollback == InitRollback /\ [][NextRollback]_vars

InitClassify ==
    /\ IdleApprovalVars
    /\ IdleDuoVars
    /\ IdleExtractVars
    /\ IdleBuildVars
    /\ IdleVerifyVars
    /\ IdleMemoryVars
    /\ IdleRollbackVars
    /\ InitClassifyVars
    /\ IdleResumeVars
    /\ IdleDispatchVars
    /\ IdleInteractiveVars
    /\ IdleRepeatedVars
    /\ IdleSpinnerVars
    /\ IdleOrchestrateVars
SpecClassify == InitClassify /\ [][NextClassify]_vars

InitResume ==
    /\ IdleApprovalVars
    /\ IdleDuoVars
    /\ IdleExtractVars
    /\ IdleBuildVars
    /\ IdleVerifyVars
    /\ IdleMemoryVars
    /\ IdleRollbackVars
    /\ IdleClassifyVars
    /\ InitResumeVars
    /\ IdleDispatchVars
    /\ IdleInteractiveVars
    /\ IdleRepeatedVars
    /\ IdleSpinnerVars
    /\ IdleOrchestrateVars
SpecResume == InitResume /\ [][NextResume]_vars

InitDispatch ==
    /\ IdleApprovalVars
    /\ IdleDuoVars
    /\ IdleExtractVars
    /\ IdleBuildVars
    /\ IdleVerifyVars
    /\ IdleMemoryVars
    /\ IdleRollbackVars
    /\ IdleClassifyVars
    /\ IdleResumeVars
    /\ InitDispatchVars
    /\ IdleInteractiveVars
    /\ IdleRepeatedVars
    /\ IdleSpinnerVars
    /\ IdleOrchestrateVars
SpecDispatch == InitDispatch /\ [][NextDispatch]_vars

InitInteractive ==
    /\ IdleApprovalVars
    /\ InitDuoVars
    /\ IdleExtractVars
    /\ IdleBuildVars
    /\ IdleVerifyVars
    /\ IdleMemoryVars
    /\ IdleRollbackVars
    /\ IdleClassifyVars
    /\ IdleResumeVars
    /\ IdleDispatchVars
    /\ InitInteractiveVars
    /\ IdleRepeatedVars
    /\ IdleSpinnerVars
    /\ IdleOrchestrateVars
SpecInteractive == InitInteractive /\ [][NextInteractive]_vars

InitRepeated ==
    /\ IdleApprovalVars
    /\ IdleDuoVars
    /\ IdleExtractVars
    /\ IdleBuildVars
    /\ IdleVerifyVars
    /\ IdleMemoryVars
    /\ IdleRollbackVars
    /\ IdleClassifyVars
    /\ IdleResumeVars
    /\ IdleDispatchVars
    /\ IdleInteractiveVars
    /\ InitRepeatedVars
    /\ IdleSpinnerVars
    /\ IdleOrchestrateVars
SpecRepeated == InitRepeated /\ [][NextRepeated]_vars

InitSpinner ==
    /\ IdleApprovalVars
    /\ IdleDuoVars
    /\ IdleExtractVars
    /\ IdleBuildVars
    /\ IdleVerifyVars
    /\ IdleMemoryVars
    /\ IdleRollbackVars
    /\ IdleClassifyVars
    /\ IdleResumeVars
    /\ IdleDispatchVars
    /\ IdleInteractiveVars
    /\ IdleRepeatedVars
    /\ InitSpinnerVars
    /\ IdleOrchestrateVars
SpecSpinner == InitSpinner /\ [][NextSpinner]_vars

InitOrchestrate ==
    /\ IdleApprovalVars
    /\ IdleDuoVars
    /\ IdleExtractVars
    /\ IdleBuildVars
    /\ IdleVerifyVars
    /\ IdleMemoryVars
    /\ IdleRollbackVars
    /\ IdleClassifyVars
    /\ IdleResumeVars
    /\ IdleDispatchVars
    /\ IdleInteractiveVars
    /\ IdleRepeatedVars
    /\ IdleSpinnerVars
    /\ InitOrchestrateVars
SpecOrchestrate == InitOrchestrate /\ [][NextOrchestrate]_vars

(***************************************************************************)
(* Properties                                                              *)
(***************************************************************************)
PhaseSeq == [i \in 1..Len(rounds) |-> rounds[i].phase]

CountPhase(phase) ==
    Cardinality({ i \in 1..Len(rounds) : rounds[i].phase = phase })

\* PLAN, CODE, VERIFY, then (REVIEW, FIX, VERIFY) k-1 times, then REVIEW
ExpectedPhases(k) ==
    [i \in 1..(3 * k + 1) |->
        IF i = 1 THEN PHASE_PLAN
        ELSE IF i = 2 THEN PHASE_CODE
        ELSE IF i % 3 = 0 THEN PHASE_VERIFY
        ELSE IF i % 3 = 1 THEN PHASE_REVIEW
        ELSE PHASE_FIX]

\* The marker, compared case-insensitively, starts at position i of t and
\* ends no later than character 100.
MarkerWithinWindowAt(t, i) ==
    /\ i + Len(APPROVED) - 1 <= ApprovalWindow
    /\ i + Len(APPROVED) - 1 <= Len(t)
    /\ \A j \in 1..Len(APPROVED) : UpperChar(t[i + j - 1]) = APPROVED[j]

\* C1: the approval check returns true exactly when the case-insensitive
\* marker APPROVED lies entirely within the first 100 characters of the text;
\* an empty text, or a text holding it only after or across character 100,
\* is not approved.
C1_ApprovedIffMarkerInFirst100 ==
    verdict # <<>> =>
        (verdict[1] <=> \E i \in 1..Len(text) : MarkerWithinWindowAt(text, i))

\* A checked text that holds the marker, but only across or after
\* character 100, and was not approved.
C1_Witness ==
    /\ verdict = <<FALSE>>
    /\ Contains(APPROVED, Upper(text))

\* C2: once a REVIEW round's output passes the approval check, that round is
\* the last one recorded, the run is approved and at its end with nothing in
\* flight, and the recorded phases are PLAN, CODE, VERIFY, (REVIEW, FIX,
\* VERIFY) k-1 times, REVIEW for the k-th review (4 rounds when k = 1).
C2_ApprovalEndsRun ==
    \A i \in 1..Len(rounds) :
        (rounds[i].phase = PHASE_REVIEW /\ IsApproved(rounds[i].output)) =>
            /\ i = Len(rounds)
            /\ result.approved
            /\ pc \in {"FINALIZE", "DONE"}
            /\ call = NoCall
            /\ dispatched[Len(dispatched)].phase = PHASE_REVIEW
            /\ PhaseSeq = ExpectedPhases(CountPhase(PHASE_REVIEW))
            /\ (CountPhase(PHASE_REVIEW) = 1 => Len(rounds) = 4)

\* A finished run approved by its second review.
C2_Witness ==
    /\ pc = "DONE"
    /\ result.approved
    /\ CountPhase(PHASE_REVIEW) = 2
    /\ Len(rounds) = 7

NoReviewApproved ==
    \A i \in 1..Len(rounds) :
        rounds[i].phase = PHASE_REVIEW => ~IsApproved(rounds[i].output)

\* C3: a run that got past PLAN and CODE and in which no REVIEW output passes
\* the approval check ends unapproved after exactly max_rounds REVIEW rounds
\* and max_rounds FIX rounds; a REVIEW number max_rounds + 1 never happens.
C3_ExhaustsAfterMaxRounds ==
    /\ CountPhase(PHASE_REVIEW) <= cfg.max_rounds
    /\ (pc = "DONE" /\ Len(rounds) >= 3 /\ NoReviewApproved) =>
           /\ ~result.approved
           /\ CountPhase(PHASE_REVIEW) = cfg.max_rounds
           /\ CountPhase(PHASE_FIX) = cfg.max_rounds
           /\ Len(rounds) = 3 + 3 * cfg.max_rounds

\* A finished run with max_rounds = 2 that no review approved.
C3_Witness ==
    /\ pc = "DONE"
    /\ cfg.max_rounds = 2
    /\ NoReviewApproved
    /\ CountPhase(PHASE_REVIEW) = 2
    /\ CountPhase(PHASE_FIX) = 2

\* C4: an unsuccessful PLAN round ends the run at once, unapproved, with only
\* PLAN recorded and no CODE dispatched; a successful PLAN followed by an
\* unsuccessful CODE round ends it at once, unapproved, with only PLAN and
\* CODE recorded and nothing else dispatched.
C4_PlanOrCodeFailureIsFatal ==
    /\ (Len(rounds) >= 1 /\ ~rounds[1].success) =>
           /\ pc = "DONE"
           /\ ~result.approved
           /\ PhaseSeq = <<PHASE_PLAN>>
           /\ Len(dispatched) = 1
           /\ call = NoCall
    /\ (Len(rounds) >= 2 /\ rounds[1].success /\ ~rounds[2].success) =>
           /\ pc = "DONE"
           /\ ~result.approved
           /\ PhaseSeq = <<PHASE_PLAN, PHASE_CODE>>
           /\ Len(dispatched) = 2
           /\ call = NoCall

\* A run ended by an unsuccessful CODE round after a successful PLAN.
C4_Witness ==
    /\ pc = "DONE"
    /\ Len(rounds) = 2
    /\ rounds[1].success
    /\ rounds[2].phase = PHASE_CODE
    /\ ~rounds[2].success

UnsafePath(filepath) ==
    \/ Contains(DotDot, filepath)
    \/ (filepath # <<>> /\ filepath[1] = "/")

\* C5: extraction never writes a file whose path contains ".." or starts
\* with "/", whichever of the three block formats carries the path.
C5_NoUnsafePathWritten ==
    /\ \A q \in DOMAIN disk : ~UnsafePath(q)
    /\ \A i \in 1..Len(written.files) : ~UnsafePath(written.files[i])

\* An extraction that wrote a file from an output whose blocks use the
\* --- path --- format and one of which carries an unsafe path.
C5_Witness ==
    /\ written.done
    /\ written.files # <<>>
    /\ \E i \in 1..Len(output) :
           output[i].kind = "dash_hdr" /\ UnsafePath(output[i].path)
    /\ \A i \in 1..Len(output) : output[i].kind # "file_hdr"

\* errors of the latest VERIFY round among the first n rounds
LastVerifyErrors(n) ==
    LET vs == { j \in 1..n : rounds[j].phase = PHASE_VERIFY }
    IN  rounds[CHOOSE j \in vs : \A k \in vs : k <= j].errors

\* C6: every REVIEW is dispatched right after a VERIFY round that itself
\* follows the latest CODE or FIX, and is given that VERIFY's error text; the
\* FIX that follows is given the same error text as that REVIEW.
C6_ReviewSeesLatestVerify ==
    \A i \in 1..Len(dispatched) :
        LET d == dispatched[i] IN
        /\ d.phase = PHASE_REVIEW =>
               /\ d.at >= 3
               /\ rounds[d.at].phase = PHASE_VERIFY
               /\ rounds[d.at - 1].phase \in {PHASE_CODE, PHASE_FIX}
               /\ d.verify_errors = rounds[d.at].errors
               /\ d.verify_errors = LastVerifyErrors(d.at)
        /\ d.phase = PHASE_FIX =>
               /\ i > 1
               /\ dispatched[i - 1].phase = PHASE_REVIEW
               /\ d.verify_errors = dispatched[i - 1].verify_errors

\* A second REVIEW and its FIX were dispatched after a VERIFY whose errors
\* differ from those of the first VERIFY.
C6_Witness ==
    \E i \in 2..Len(dispatched) :
        /\ dispatched[i].phase = PHASE_FIX
        /\ dispatched[i].at = 7
        /\ rounds[6].errors # rounds[3].errors

\* C7: after a successful CODE round the next thing run and recorded is a
\* VERIFY; a failing VERIFY leaves the run unapproved-so-far and going, and
\* while review rounds remain the next round is a REVIEW.
C7_VerifyNeverEndsRun ==
    /\ (Len(rounds) >= 2 /\ rounds[2].phase = PHASE_CODE /\ rounds[2].success)
           => IF Len(rounds) = 2 THEN pc = PHASE_VERIFY
              ELSE rounds[3].phase = PHASE_VERIFY
    /\ \A i \in 1..Len(rounds) :
           (rounds[i].phase = PHASE_VERIFY /\ ~rounds[i].success) =>
               LET reviewsBefore ==
                       Cardinality({ j \in 1..i :
                                        rounds[j].phase = PHASE_REVIEW })
               IN  IF Len(rounds) = i
                   THEN /\ ~result.approved
                        /\ reviewsBefore < cfg.max_rounds => pc = PHASE_REVIEW
                        /\ reviewsBefore >= cfg.max_rounds
                               => pc \in {"FINALIZE", "DONE"}
                   ELSE rounds[i + 1].phase = PHASE_REVIEW

\* Both the initial VERIFY and the VERIFY after a FIX failed, and each was
\* followed by a REVIEW; the last REVIEW approved.
C7_Witness ==
    /\ Len(rounds) >= 7
    /\ ~rounds[3].success
    /\ ~rounds[6].success
    /\ rounds[4].phase = PHASE_REVIEW
    /\ rounds[7].phase = PHASE_REVIEW
    /\ result.approved

\* C8: every way the run can end goes through finalization: at the return
\* the result's total_rounds equals the number of recorded rounds, its file
\* list has been filled in, and the commit was made when auto_commit is on.
C8_FinalizedOnEveryExit ==
    pc = "DONE" =>
        /\ result.total_rounds = Len(rounds)
        /\ result.files_created = "listed"
        /\ cfg.auto_commit => committed = 1

\* Operations in flight that can modify the project: the awaited agentic
\* dispatch or the running VERIFY, and agentic subprocesses left running.
MutatingInFlight ==
    (IF call # NoCall /\ (call.phase = PHASE_VERIFY \/ Agentic(call.phase))
     THEN 1 ELSE 0) + (IF "agentic" \in orphans THEN 1 ELSE 0)

\* C9: while a run is in progress at most one operation that can modify the
\* project is in flight, and no dispatch or phase is started while an earlier
\* agent call is still running.
C9_AtMostOneInFlight ==
    pc # "DONE" =>
        /\ MutatingInFlight <= 1
        /\ call # NoCall => orphans = {}

\* C10: for every adapter, no agent call ends after more than its timeout,
\* and one cut off by the timeout has a TIMEOUT outcome recorded as an
\* unsuccessful round.
C10_TimeoutBoundsEveryCall ==
    \A i \in 1..Len(dispatched) :
        LET d == dispatched[i] IN
        d.status \in {"success", "failed", "timeout"} =>
            /\ d.duration_ms <= Timeout
            /\ (d.status = "timeout") => ~rounds[d.at + 1].success

\* An agent the pipeline cannot reach: not among the engine's adapters, or
\* configured with its backend not installed.
Unreachable(agent) == agent \notin bcfg.adapters \/ agent \notin bcfg.installed

\* C11: a dispatch to an agent that is not configured or not installed is
\* reported with the status unavailable, never as a success, and the backend
\* is not started for it.
C11_UnreachableAgentReportedUnavailable ==
    \A i \in 1..Len(steps) :
        Unreachable(steps[i].agent_name) =>
            /\ steps[i].status = "unavailable"
            /\ ~steps[i].backend_invoked

\* Positions in all_commands of the commands of the suite that ended the
\* way `kind` says.
CommandsEnding(s, kind) ==
    { i \in 1..Len(AllCommands(s)) : AllCommands(s)[i] = kind }

\* C12: a verification subcommand that times out, the syntax pre-check
\* included, makes its VERIFY unsuccessful and has an error entry, and the
\* routine still returns its outcome.
C12_TimeoutIsAFailureOfVerify ==
    verified # <<>> =>
        \A i \in CommandsEnding(suite, "timeout") :
            /\ ~verified[1].success
            /\ \E k \in 1..Len(verified[1].errors) :
                   verified[1].errors[k] = ErrorEntry(i, "timeout")

\* C13: a VERIFY result is successful exactly when every command that was
\* executed exited with code zero.
C13_SuccessIffAllCommandsExitZero ==
    (verified # <<>> /\ suite.routine \in {"_verify", "run_verify"}) =>
        (verified[1].success
            <=> \A i \in 1..Len(AllCommands(suite)) :
                    AllCommands(suite)[i] = "zero")

\* C14: when the working directory does not exist, once the run is under way
\* a CRITICAL validation finding has been produced and no agent has been
\* dispatched.
C14_MissingDirectoryIsCriticalBeforeDispatch ==
    (~cfg.wd_exists /\ pc # "START") =>
        /\ \E i \in 1..Len(validation) : validation[i] = MissingDirectory
        /\ dispatched = <<>>

RECURSIVE SumCosts(_, _)
SumCosts(rs, i) ==
    IF i = 0 THEN 0
    ELSE SumCosts(rs, i - 1)
         + (IF rs[i].cost_usd = NoCost THEN 0 ELSE rs[i].cost_usd[1])

RECURSIVE SumDurations(_, _)
SumDurations(rs, i) ==
    IF i = 0 THEN 0 ELSE SumDurations(rs, i - 1) + rs[i].duration_ms

\* C15: in every state of a run, so after each recorded round, the running
\* cost is the sum of the costs of the rounds recorded so far, a missing cost
\* counting as 0, and the running time is the sum of their durations; neither
\* total ever decreases.
C15_RunningTotalsAreSumsOfRounds ==
    /\ [](/\ running_cost = SumCosts(rounds, Len(rounds))
          /\ running_time = SumDurations(rounds, Len(rounds)))
    /\ [][/\ running_cost' >= running_cost
          /\ running_time' >= running_time]_vars

\* A run in progress after a round without a cost and rounds with one, with
\* both totals above zero.
C15_Witness ==
    /\ pc \in AgentPhases
    /\ Len(rounds) >= 3
    /\ \E i \in 1..Len(rounds) : rounds[i].cost_usd = NoCost
    /\ \E i, j \in 1..Len(rounds) :
           i # j /\ rounds[i].cost_usd # NoCost /\ rounds[j].cost_usd # NoCost
    /\ running_cost > 0
    /\ running_time > 0

\* Length of the longest suffix of the records in which no record passed
LongestFailingSuffix(recs) ==
    LET failing == { k \in 0..Len(recs) :
                       \A i \in (Len(recs) - k + 1)..Len(recs) :
                           ~recs[i].test_passed }
    IN  CHOOSE k \in failing : \A m \in failing : m <= k

\* C16: a read of consecutive_failures returns the length of the longest
\* all-failing suffix of the records present at the read; it is 0 when the
\* last record passed or there is none.
C16_ConsecutiveFailuresIsFailingSuffix ==
    observed # <<>> =>
        observed[1].count =
            LongestFailingSuffix(SubSeq(records, 1, observed[1].at))

\* consecutive_failures was read as 3 on the records pass, fail, fail, fail.
C16_Witness ==
    /\ observed # <<>>
    /\ observed[1].at = 4
    /\ Len(records) = 4
    /\ records[1].test_passed
    /\ \A i \in 2..4 : ~records[i].test_passed
    /\ observed[1].count = 3

\* The agent of each iteration run so far, then the agent now in charge
AgentTrail ==
    [i \in 1..(Len(steps) + 1) |->
        IF i <= Len(steps) THEN steps[i].agent_name ELSE current_agent]

PriorityOrder ==
    << [category |-> "syntax", patterns |-> SYNTAX_PATTERNS],
       [category |-> "dependency", patterns |-> DEPENDENCY_PATTERNS],
       [category |-> "configuration", patterns |-> CONFIG_PATTERNS],
       [category |-> "logic", patterns |-> LOGIC_PATTERNS],
       [category |-> "runtime", patterns |-> RUNTIME_PATTERNS] >>

GroupMatches(k) == MatchesAny(error_output, PriorityOrder[k].patterns)

\* C19: the category returned is that of the first pattern group, in the
\* order SYNTAX, DEPENDENCY, CONFIGURATION, LOGIC, RUNTIME, with a pattern
\* found in the text, and UNKNOWN with MEDIUM severity when no group has
\* one; a text with a dependency and a runtime marker and no syntax marker
\* is classified DEPENDENCY.
C19_FirstMatchingGroupWins ==
    classified # <<>> =>
        /\ \/ \E k \in 1..Len(PriorityOrder) :
                  /\ classified[1].category = PriorityOrder[k].category
                  /\ GroupMatches(k)
                  /\ \A j \in 1..(k - 1) : ~GroupMatches(j)
           \/ /\ classified[1].category = "unknown"
              /\ classified[1].severity = "medium"
              /\ \A k \in 1..Len(PriorityOrder) : ~GroupMatches(k)
        /\ (GroupMatches(2) /\ GroupMatches(5) /\ ~GroupMatches(1))
               => classified[1].category = "dependency"

C19_Witness ==
    /\ classified # <<>>
    /\ GroupMatches(2)
    /\ GroupMatches(5)
    /\ classified[1].category = "dependency"

NoDuplicatePatterns(es) ==
    \A i, j \in 1..Len(es) : i # j => es[i].pattern # es[j].pattern

\* C20: no two entries of the persistent memory share a pattern, and a step
\* that adds one learning without adding an entry raises the confidence of
\* one stored entry by 0.1, to at most 1.0, and its use count by one, and
\* changes nothing else.
C20_LearningsAreDeduplicated ==
    /\ [](NoDuplicatePatterns(entries) /\ NoDuplicatePatterns(mem_file))
    /\ [][(/\ LearningsMade(entries') = LearningsMade(entries) + 1
           /\ Len(entries') = Len(entries))
          => \E i \in 1..Len(entries) :
                 entries' =
                     [entries EXCEPT ![i] =
                         [@ EXCEPT !.confidence = Min(FullConfidence, @ + 1),
                                   !.uses = @ + 1]]]_vars

\* Two entries are stored, and one of them was observed again with its
\* confidence at the cap.
C20_Witness ==
    /\ Len(entries) >= 2
    /\ \E i \in 1..Len(entries) :
           entries[i].uses >= 1 /\ entries[i].confidence = FullConfidence
    /\ \E i \in 1..Len(entries) :
           entries[i].uses >= 1 /\ entries[i].confidence < FullConfidence


\* C21: the memory file always holds what the PersistentMemory holds: a new
\* PersistentMemory opened on the directory reads the same entries, in the
\* same order, with the same pattern, category, hint, agent, confidence and
\* use count.
C21_ReopenedMemoryHoldsTheSameEntries ==
    /\ [](Load(mem_file) = entries)
    /\ [][opens' # opens => entries' = entries]_vars

\* A memory with two entries, one of them observed again, was reopened.
C21_Witness ==
    /\ opens = MaxOpens
    /\ Len(entries) >= 2
    /\ \E i \in 1..Len(entries) : entries[i].uses >= 1
    /\ \E i, j \in 1..Len(entries) : entries[i].agent # entries[j].agent


\* C22: load_state after save_state on the same directory returns a state
\* with the objective, last_phase, planner and coder that were saved and as
\* many rounds.
C22_LoadReturnsWhatWasSaved ==
    (saved # <<>> /\ loaded # <<>>) =>
        /\ loaded[1].result = "state"
        /\ loaded[1].state.objective = JStr(saved[1].objective)
        /\ loaded[1].state.last_phase = JStr(saved[1].last_phase)
        /\ loaded[1].state.planner = JStr(saved[1].agents.planner)
        /\ loaded[1].state.coder = JStr(saved[1].agents.coder)
        /\ loaded[1].state.rounds.type = "array"
        /\ Len(loaded[1].state.rounds.items) = Len(saved[1].rounds)

\* A state whose rounds hold a value json cannot encode was saved and loaded.
C22_Witness ==
    /\ saved # <<>>
    /\ loaded # <<>>
    /\ Len(saved[1].rounds) = MaxSavedRounds
    /\ \E i \in 1..Len(saved[1].rounds) :
           saved[1].rounds[i].stamp.type = "pyobject"

\* Whether the file holds a JSON object
HoldsObject(file) == file.kind = "json" /\ file.value.type = "object"

\* Whether a JSON value is the number 1
IsOne(value) ==
    \/ value.type = "int" /\ value.int = 1
    \/ value.type = "float" /\ value.float = 1

\* C23: load_state returns None, and does not raise, when the state file is
\* missing, holds a version other than 1, or holds content that is not a
\* state object.
C23_LoadReturnsNoneForUnusableFile ==
    (/\ loaded # <<>>
     /\ \/ state_file.kind = "missing"
        \/ ~HoldsObject(state_file)
        \/ /\ HoldsObject(state_file)
           /\ \/ "version" \notin DOMAIN state_file.value.members
              \/ ~IsOne(state_file.value.members.version))
        => loaded[1] = ReturnedNone


\* Tasks that are inside adapter.execute
InFlight == { i \in 1..Len(tasks) : tasks[i] = "executing" }

\* C24: during a parallel dispatch the number of agent executions in flight
\* never exceeds max_parallel.
C24_InFlightNeverExceedsMaxParallel ==
    Cardinality(InFlight) <= fanout.max_parallel

\* The limit is reached while another task is still waiting for its turn.
C24_Witness ==
    /\ fanout.max_parallel >= 1
    /\ Cardinality(InFlight) = fanout.max_parallel
    /\ \E i \in 1..Len(tasks) :
           tasks[i] = "waiting" /\ fanout.names[i] \in fanout.adapters


AvailableTiersAfter(agent) ==
    TiersFrom(TierIndex(agent) + 1, bcfg.adapters \cap bcfg.installed)

\* C26: an escalation moves to the first tier entry after the current
\* agent's position that is available (installed), skipping entries that
\* are configured but not available.
C26_EscalatesToFirstAvailableTier ==
    [][current_agent' # current_agent =>
           /\ AvailableTiersAfter(current_agent) # {}
           /\ current_agent' =
                  ESCALATION_TIERS[LowestOf(AvailableTiersAfter(current_agent))]]_vars


\* A step of the loop that ends a failed iteration
FailedIterationEnds ==
    /\ Len(steps') = Len(steps) + 1
    /\ ~steps'[Len(steps')].build_success

\* C27: with escalation enabled, the end of a failed iteration makes an
\* escalation attempt exactly when the memory then counts at least three
\* consecutive failures; escalating does not reset the count.
C27_EscalationAttemptedFromThirdFailureOn ==
    [][FailedIterationEnds =>
           /\ LongestFailingSuffix(memory') = LongestFailingSuffix(memory) + 1
           /\ Len(escalations') - Len(escalations) =
                  (IF bcfg.enable_escalation
                      /\ LongestFailingSuffix(memory') >= EscalateAfter
                   THEN 1 ELSE 0)]_vars

\* A second attempt was made after a first one had changed the agent.
C27_Witness ==
    /\ Len(escalations) >= 2
    /\ escalations[1].to # escalations[1].from
    /\ escalations[2].after = escalations[1].after + 1


\* The last three iterations failed verification with the same category
LastThreeShareCategory ==
    /\ Len(steps) >= 3
    /\ \A i \in (Len(steps) - 2)..Len(steps) :
           /\ steps[i].error_classification # "none"
           /\ steps[i].error_classification =
                  steps[Len(steps)].error_classification

\* C28: when the last three iterations of the build loop failed with the
\* same error category, the failure is classified ARCHITECTURE and an
\* escalation attempt follows it.
C28_RepeatedCategoryBecomesArchitecture ==
    LastThreeShareCategory =>
        /\ steps[Len(steps)].error_classification = "architecture"
        /\ escalations # <<>>
        /\ escalations[Len(escalations)].after = Len(steps)


\* The history holds at least three classifications and its last three
\* have one category
LastThreeAgree ==
    /\ Len(history) >= 3
    /\ history[Len(history)].category = history[Len(history) - 1].category
    /\ history[Len(history)].category = history[Len(history) - 2].category

\* C29: classify_repeated_failures returns ARCHITECTURE/HIGH exactly when
\* the history holds at least three classifications whose last three share
\* a category; otherwise it returns the last classification unchanged, and
\* UNKNOWN/MEDIUM for an empty history.
C29_ArchitectureIffLastThreeAgree ==
    repeated # <<>> =>
        /\ (repeated[1].category = "architecture" /\ repeated[1].severity = "high")
               <=> LastThreeAgree
        /\ (~LastThreeAgree /\ history # <<>>)
               => repeated[1] = history[Len(history)]
        /\ history = <<>>
               => (repeated[1].category = "unknown"
                   /\ repeated[1].severity = "medium")

\* A history whose last three agree while an earlier entry differs
C29_Witness ==
    /\ repeated # <<>>
    /\ Len(history) = MaxHistory
    /\ LastThreeAgree
    /\ history[1].category # history[Len(history)].category
    /\ repeated[1].category = "architecture"


\* Suites for which no verification command was detected, with and without
\* a CRITICAL finding of the validation gate
NoCommandSuites ==
    { [routine |-> r, syntax_check |-> "absent", commands |-> <<>>,
       critical |-> cr] : r \in {"_verify", "run_verify"}, cr \in 0..1 }

\* The errors a VERIFY routine returns for a suite
VerifyErrorsOf(s) ==
    IF s.routine = "_verify" THEN DuoVerifyErrors(s) ELSE RunVerifyErrors(s)

\* C30: an absence of verification commands is never a failure by itself:
\* VERIFY returns no error entry for it (only those of the validation gate),
\* and an iteration of BuildPipeline run without test commands is a success
\* exactly when its agent succeeded and a file was created or modified.
C30_NoCommandsIsNotAFailure ==
    /\ \A s \in NoCommandSuites :
           /\ \A i \in 1..Len(VerifyErrorsOf(s)) :
                  VerifyErrorsOf(s)[i].kind = "validation"
           /\ s.critical = 0 => VerifyOutcome(VerifyErrorsOf(s)).success
    /\ ~test_commands =>
           \A i \in 1..Len(steps) :
               steps[i].build_success <=>
                   /\ steps[i].status = "success"
                   /\ steps[i].files_created \/ steps[i].files_modified

\* Without test commands, an iteration that changed nothing was followed by
\* one that only modified a file and succeeded.
C30_Witness ==
    /\ ~test_commands
    /\ Len(steps) >= 2
    /\ steps[1].status = "success"
    /\ ~steps[1].build_success
    /\ steps[Len(steps)].build_success
    /\ ~steps[Len(steps)].files_created
    /\ steps[Len(steps)].files_modified

\* C31: each iteration of BuildPipeline.run adds exactly one record to the
\* session memory on every path, so memory holds as many records as there are
\* steps, record i belongs to iteration i and is marked passed exactly when
\* the build of step i succeeded.
C31_OneRecordPerIteration ==
    /\ Len(memory) = Len(steps)
    /\ \A i \in 1..Len(memory) :
           /\ memory[i].iteration = steps[i].iteration
           /\ memory[i].test_passed = steps[i].build_success

\* A finished run of three iterations: an agent failure, a failed
\* verification and a passing one.
C31_Witness ==
    /\ bpc = "DONE"
    /\ Len(steps) = 3
    /\ steps[1].status # "success"
    /\ steps[2].status = "success" /\ ~steps[2].build_success
    /\ steps[3].build_success
    /\ Len(memory) = 3

\* C32: within one run of a fresh duo pipeline the round list only grows by
\* appending: every step leaves the rounds recorded so far in place and
\* unchanged and adds at most one round at the end, and the k-th recorded
\* round carries round_number k.
C32_RoundsOnlyGrowByAppending ==
    /\ [](\A k \in 1..Len(rounds) : rounds[k].round_number = k)
    /\ [][/\ Len(rounds') \in {Len(rounds), Len(rounds) + 1}
          /\ \A k \in 1..Len(rounds) : rounds'[k] = rounds[k]]_vars

\* A finished run that recorded a full review round after the first
\* verification: PLAN, CODE, VERIFY, REVIEW, FIX, VERIFY and more.
C32_Witness ==
    /\ pc = "DONE"
    /\ Len(rounds) >= 7
    /\ rounds[5].phase = PHASE_FIX
    /\ rounds[7].round_number = 7

\* Positions of the header lines of one format in the cleaned output that
\* the pattern of the format matches.
HeadersOf(fmt) ==
    LET clean == StripNoise(output)
    IN  { i \in 1..Len(clean) :
            CASE fmt = 1 -> clean[i].kind = "file_hdr"
              [] fmt = 2 -> clean[i].kind = "fence_open"
                            /\ ShapedPath(clean[i].path)
              [] fmt = 3 -> clean[i].kind = "dash_hdr"
                            /\ ShapedPath(clean[i].path) }

\* The first of the three formats, in the fixed order, that has a match.
FirstFormat ==
    IF HeadersOf(1) # {} THEN 1 ELSE IF HeadersOf(2) # {} THEN 2 ELSE 3

\* C33: extraction uses only the first of the three formats (=== FILE, then
\* fenced blocks labelled with a path, then --- path ---) that has at least
\* one match: the files written are, in order, the accepted paths of the
\* blocks of that format and of no other, so a fallback format contributes
\* only when the output holds no === FILE block.
C33_OnlyFirstMatchingFormatIsUsed ==
    written.done =>
        LET clean == StripNoise(output)
            used == SelectSeq(
                        [i \in 1..Len(clean) |->
                            IF i \in HeadersOf(FirstFormat)
                            THEN clean[i].path ELSE <<>>],
                        LAMBDA q : q # <<>> /\ ~Rejected(q))
        IN  written.files = used

\* An output with a === FILE block and an accepted block of a fallback
\* format under another path, of which only the first was written.
C33_Witness ==
    /\ written.done
    /\ HeadersOf(1) # {}
    /\ \E i \in HeadersOf(2) \cup HeadersOf(3) :
           /\ ~Rejected(StripNoise(output)[i].path)
           /\ \A k \in 1..Len(written.files) :
                  written.files[k] # StripNoise(output)[i].path
    /\ Len(written.files) = 1

\* The lines between the header at position i of the output and the
\* === END FILE === line that closes its block, as the agent wrote them.
BlockText(i) ==
    SubSeq(output, i + 1, FirstOf(output, i + 1, {"end_file"}) - 1)

\* C34: for an accepted === FILE block the file on disk holds exactly the
\* lines between the header and the === END FILE === line: none removed,
\* trailing blank lines kept.
C34_BlockWrittenVerbatim ==
    written.done =>
        \A i \in 1..Len(output) :
            (/\ output[i].kind = "file_hdr"
             /\ ~Rejected(output[i].path)
             /\ \A j \in (i + 1)..Len(output) :
                    output[j].kind = "file_hdr"
                        => output[j].path # output[i].path)
            => disk[output[i].path] = BlockText(i)

\* BuildPipeline.run under the assumption that every iteration it starts
\* comes back: the agent call and the verification commands return.
SpecBuildFair == SpecBuild /\ WF_vars(NextBuild)

\* C35: BuildPipeline.run terminates after at most max_iterations
\* iterations: it returns right after the first iteration whose build
\* succeeded and otherwise after exactly max_iterations failed ones, so only
\* the last returned step can be a successful one.
C35_RunEndsWithinMaxIterations ==
    /\ [](/\ Len(steps) <= bcfg.max_iterations
          /\ \A i \in 1..(Len(steps) - 1) : ~steps[i].build_success
          /\ (Len(steps) > 0 /\ steps[Len(steps)].build_success)
                 => bpc = "DONE"
          /\ bpc = "DONE" =>
                 \/ Len(steps) > 0 /\ steps[Len(steps)].build_success
                 \/ Len(steps) = bcfg.max_iterations)
    /\ <>(bpc = "DONE")

\* A run that returned on a successful third iteration with iterations to
\* spare.
C35_Witness ==
    /\ bpc = "DONE"
    /\ Len(steps) = 3
    /\ steps[3].build_success
    /\ bcfg.max_iterations > 3

\* C36: execute_with_spinner invokes the agent function at most
\* max_retries + 1 times: a successful result is returned without a further
\* attempt, and a failed result or a timeout or OS error is followed by
\* another attempt only while attempts remain.
C36_AtMostMaxRetriesPlusOneCalls ==
    /\ tasks_created <= max_retries + 1
    /\ \A i \in 1..Len(tries) :
           /\ IsSuccess(tries[i])
                  => i = Len(tries) /\ spin_pc = "DONE" /\ spun = <<tries[i]>>
           /\ i < tasks_created
                  => /\ i <= max_retries
                     /\ ~IsSuccess(tries[i])
                     /\ tries[i].kind = "raised"
                            => tries[i].what \in CaughtErrors
    /\ (spin_pc = "DONE" /\ tries # <<>>)
           => /\ spun = <<tries[Len(tries)]>>
              /\ tasks_created = Len(tries)

\* With one retry allowed, a failed first attempt was followed by a
\* successful second one, which was returned.
C36_Witness ==
    /\ max_retries = 1
    /\ spin_pc = "DONE"
    /\ tasks_created = 2
    /\ ~IsSuccess(tries[1])
    /\ spun = <<[kind |-> "result", what |-> "success"]>>

\* Number of REVIEW rounds among the first i recorded rounds.
ReviewsUpTo(i) ==
    Cardinality({ j \in 1..i : rounds[j].phase = PHASE_REVIEW })

\* C37: a failed REVIEW or FIX dispatch never ends the duo run: an
\* unsuccessful REVIEW whose output is not approved is followed by FIX, and
\* an unsuccessful FIX is followed by VERIFY and, while review rounds remain,
\* by the next REVIEW.
C37_FailedReviewOrFixDoesNotEndRun ==
    \A i \in 1..Len(rounds) :
        /\ (/\ rounds[i].phase = PHASE_REVIEW
            /\ ~rounds[i].success
            /\ ~IsApproved(rounds[i].output))
               => IF i = Len(rounds) THEN pc = PHASE_FIX
                  ELSE rounds[i + 1].phase = PHASE_FIX
        /\ (rounds[i].phase = PHASE_FIX /\ ~rounds[i].success)
               => CASE i = Len(rounds) -> pc = PHASE_VERIFY
                    [] i + 1 = Len(rounds) ->
                         /\ rounds[i + 1].phase = PHASE_VERIFY
                         /\ IF ReviewsUpTo(i) < cfg.max_rounds
                            THEN pc = PHASE_REVIEW
                            ELSE pc \in {"FINALIZE", "DONE"}
                    [] OTHER ->
                         /\ rounds[i + 1].phase = PHASE_VERIFY
                         /\ rounds[i + 2].phase = PHASE_REVIEW

\* An unsuccessful, unapproved first REVIEW was followed by an unsuccessful
\* FIX, a VERIFY and the second REVIEW.
C37_Witness ==
    /\ Len(rounds) >= 7
    /\ rounds[4].phase = PHASE_REVIEW
    /\ ~rounds[4].success
    /\ rounds[5].phase = PHASE_FIX
    /\ ~rounds[5].success
    /\ rounds[6].phase = PHASE_VERIFY
    /\ rounds[7].phase = PHASE_REVIEW

\* C38: a duo run is approved only if its last recorded round is a REVIEW
\* round that succeeded and whose output passes the approval check: a failed
\* reviewer dispatch never approves the build.
C38_ApprovedOnlyBySuccessfulReview ==
    result.approved =>
        /\ Len(rounds) > 0
        /\ rounds[Len(rounds)].phase = PHASE_REVIEW
        /\ rounds[Len(rounds)].success
        /\ IsApproved(rounds[Len(rounds)].output)

\* C39: within one BuildPipeline.run on a fresh pipeline no step is rolled
\* back: the run returns at the first passing iteration, so no iteration,
\* failing or not, comes after one whose verification passed.
C39_NoRollbackWithinOneRun ==
    /\ \A i \in 1..Len(steps) : ~steps[i].rolled_back
    /\ \A i \in 1..(Len(steps) - 1) : ~steps[i].test_success
    /\ (Len(steps) > 0 /\ steps[Len(steps)].test_success) => bpc = "DONE"

\* A third iteration whose verification failed, checked for a regression
\* against two earlier steps and kept.
C39_Witness ==
    /\ Len(steps) >= 3
    /\ steps[3].status = "success"
    /\ steps[3].error_classification \in BuildCategories
    /\ ~steps[3].test_success
    /\ ~steps[3].rolled_back

\* C40: in every orchestration mode the rounds of the returned result hold
\* every agent dispatch made during the session, and total_cost_usd is the
\* sum of the costs of those dispatches, a missing cost counting as 0;
\* this includes a swarm session that falls back to a single agent.
C40_ResultAccountsForEveryDispatch ==
    oresult # <<>> =>
        LET rs == oresult[1].rounds
        IN  /\ Len(rs) = Len(calls)
            /\ { rs[i].result.id : i \in 1..Len(rs) } = 1..Len(calls)
            /\ oresult[1].total_cost_usd = SumCosts(calls, Len(calls))

====
